---- MODULE Spec2Model ----
(***************************************************************************)
(* Model of the recursive directory traversal of itfs.                     *)
(*                                                                         *)
(*   src/src/lib.rs  ReadDirRecursive with statistics and error logs       *)
(*   src/src/rdr.rs  ReadDirRecursive, the plain engine                    *)
(*                                                                         *)
(* The file system is a finite tree of entries.  Entry 0 is the root       *)
(* directory; entries 1..Len(fs) are numbered so that a directory lists    *)
(* its entries in increasing number (every listing order of every tree is  *)
(* obtained by renumbering).  Each entry carries at most one failure: its  *)
(* read from the parent's handle fails, its metadata query fails, or (a    *)
(* directory) opening it fails.                                            *)
(*                                                                         *)
(* One call of next() is a call step followed by one step per iteration    *)
(* of its loop; pc is the position of the consumer's call.                 *)
(***************************************************************************)
EXTENDS Integers, Sequences, FiniteSets, TLC

VARIABLES
    fs,         \* the directory tree: entry number -> [parent, is_dir, fail]
    variant,    \* which engine is driven: "lib" (lib.rs) or "rdr" (rdr.rs)
    rdr,        \* the engine: <<>> while none exists, <<record>> once constructed
    pc,         \* "start" | "failed" | "idle" | "loop"
    newRes,     \* what ReadDirRecursive::new returned
    ret,        \* what the last completed pull returned
    now,        \* the system clock, in seconds
    pulls,      \* number of calls of next() made so far
    ends,       \* number of calls of next() that returned None
    yielded,    \* the Some(..) items returned so far, in order
    log,        \* file-system results obtained so far, in order
    maxPendingSeen,  \* largest length pending_dirs has had so far
    entered,    \* the engine as it was when the current (or last) call of next() began
    args,       \* what the consumer passes to the constructor: root path text, component
    upstream,   \* the items the inner iterator of a filter yields, in order
    filter,     \* the filter struct: its inner iterator and its configuration
    out,        \* the Some(..) items the filter has returned so far, in order
    fends,      \* number of pulls of the filter that returned None
    reroot      \* a caller of path_re_root: its arguments and the results it has got

engineVars == <<fs, variant, rdr, pc, newRes, ret, now, pulls, ends, yielded, log,
                maxPendingSeen, entered, args>>
filterVars == <<upstream, filter, out, fends>>
vars == <<engineVars, filterVars, reroot>>

-----------------------------------------------------------------------------
(* Bounds *)

MaxNodes == 3
MaxFairNodes == 2
ExtraPulls == 1
MaxFindNodes == 2
MaxItems == 3
MaxFairItems == 2
MaxPathLen == 2
MaxPaths == 2
MaxDeepNodes == 5
MaxPulls == MaxNodes + 1 + ExtraPulls

-----------------------------------------------------------------------------
(* Sequences *)

Last(s) == s[Len(s)]
Front(s) == SubSeq(s, 1, Len(s) - 1)
Max(a, b) == IF a > b THEN a ELSE b

Count(s, T(_)) == Cardinality({i \in 1..Len(s) : T(s[i])})

RECURSIVE SortedSeq(_)
SortedSeq(S) ==
    IF S = {} THEN <<>>
    ELSE LET m == CHOOSE x \in S : \A y \in S : x <= y
         IN <<m>> \o SortedSeq(S \ {m})

-----------------------------------------------------------------------------
(* The file system *)

Root == 0
Missing == -1
NoNode == -2
NoErr == "none"

FileFailures == {"none", "read", "meta"}
DirFailures == FileFailures \cup {"open"}
NodeKinds == [is_dir : {FALSE}, fail : FileFailures] \cup [is_dir : {TRUE}, fail : DirFailures]


DirsOf(t) == {Root} \cup {i \in 1..Len(t) : t[i].is_dir}

RECURSIVE Trees(_)
Trees(k) ==
    IF k = 0 THEN {<<>>}
    ELSE UNION { { Append(t, [parent |-> p, is_dir |-> nk.is_dir, fail |-> nk.fail]) :
                     p \in DirsOf(t), nk \in NodeKinds } : t \in Trees(k - 1) }

Nodes == 1..Len(fs)
IsDir(n) == n = Root \/ (n \in Nodes /\ fs[n].is_dir)
Children(d) == {i \in Nodes : fs[i].parent = d}

\* io::Error::to_string of the failure met at entry n: entries with an odd number
\* fail with EACCES, the others with ENOENT
ErrOf(n) == IF n \in Nodes /\ n % 2 = 1 THEN "EACCES" ELSE "ENOENT"

\* path::PathBuf: the components from the root down to the entry
RECURSIVE PathOf(_)
PathOf(n) == IF n \in Nodes THEN Append(PathOf(fs[n].parent), n) ELSE <<n>>
RootPath == <<Root>>
MissingPath == <<Missing>>
Resolve(path) == Last(path)

Ev(op, node, res) == [op |-> op, node |-> node, res |-> res]

\* fs::read_dir(path)
FsReadDir(path) ==
    LET d == Resolve(path) IN
    IF d = Missing \/ (d \in Nodes /\ fs[d].fail = "open")
      THEN [ok |-> FALSE, handle |-> <<>>, err |-> ErrOf(d), io |-> <<Ev("open", d, "err")>>]
    ELSE [ok |-> TRUE, handle |-> SortedSeq(Children(d)), err |-> NoErr,
          io |-> <<Ev("open", d, "ok")>>]

\* fs::ReadDir::next
ReadDirNext(h) ==
    IF h = <<>> THEN [tag |-> "None", entry |-> NoNode, err |-> NoErr, rest |-> h, io |-> <<>>]
    ELSE IF fs[Head(h)].fail = "read"
      THEN [tag |-> "Err", entry |-> NoNode, err |-> ErrOf(Head(h)), rest |-> Tail(h),
            io |-> <<Ev("read", Head(h), "err")>>]
    ELSE [tag |-> "Ok", entry |-> Head(h), err |-> NoErr, rest |-> Tail(h),
          io |-> <<Ev("read", Head(h), "ok")>>]

\* fs::DirEntry::metadata, Metadata::is_dir
EntryMetadata(entry) ==
    IF fs[entry].fail = "meta"
      THEN [ok |-> FALSE, is_dir |-> FALSE, err |-> ErrOf(entry),
            io |-> <<Ev("meta", entry, "err")>>]
    ELSE [ok |-> TRUE, is_dir |-> fs[entry].is_dir, err |-> NoErr,
          io |-> <<Ev("meta", entry, IF fs[entry].is_dir THEN "dir" ELSE "file")>>]

-----------------------------------------------------------------------------
(* Items and loop outcomes *)

ItemOk(entry) == [tag |-> "Ok", entry |-> entry, err |-> NoErr]
ItemErr(e) == [tag |-> "Err", entry |-> NoNode, err |-> e]
ItemNone == [tag |-> "None", entry |-> NoNode, err |-> NoErr]
NoRet == [tag |-> "Pending", entry |-> NoNode, err |-> NoErr]

Continue(self, io) == [self |-> self, ctl |-> "continue", val |-> NoRet, io |-> io]
Break(self, val, io) == [self |-> self, ctl |-> "break", val |-> val, io |-> io]

-----------------------------------------------------------------------------
(* src/src/lib.rs: ReadDirRecursive with statistics and error logs *)

EmptyMap == [k \in {} |-> <<>>]

RDRStatsDefault ==
    [iteration_started |-> <<>>, max_stacked_dirs |-> 0, total_files_consumed |-> 0,
     total_dirs_consumed |-> 0, total_iterations |-> 0]

\* mutant: a failed open of the root is swallowed and an engine over nothing is returned
new_swallows_error(path) ==
    LET r == FsReadDir(path) IN
    [ok |-> TRUE, err |-> NoErr, io |-> r.io,
     self |-> <<[current_path |-> path, pending_dirs |-> <<>>, read_dir |-> r.handle,
                 stats |-> RDRStatsDefault, meta_errors |-> EmptyMap,
                 rd_errors |-> EmptyMap]>>]

new(path) ==
    LET r == FsReadDir(path) IN
    IF r.ok
      THEN [ok |-> TRUE, err |-> NoErr, io |-> r.io,
            self |-> <<[current_path |-> path, pending_dirs |-> <<>>, read_dir |-> r.handle,
                        stats |-> RDRStatsDefault, meta_errors |-> EmptyMap,
                        rd_errors |-> EmptyMap]>>]
      ELSE [ok |-> FALSE, err |-> r.err, io |-> r.io, self |-> <<>>]

mark_start(self, t) == [self EXCEPT !.stats.iteration_started = <<t>>]

\* mutant: the directory counter is not updated
digest_dir_no_count(self, entry) ==
    LET pushed == [self EXCEPT !.pending_dirs = Append(@, entry)]
    IN IF Len(pushed.pending_dirs) > pushed.stats.max_stacked_dirs
         THEN [pushed EXCEPT !.stats.max_stacked_dirs = Len(pushed.pending_dirs)]
         ELSE pushed

\* mutant: the high-water mark is taken from the length before the push
digest_dir_stale_max(self, entry) ==
    LET pushed == [self EXCEPT !.pending_dirs = Append(@, entry),
                               !.stats.total_dirs_consumed = @ + 1]
    IN IF Len(self.pending_dirs) > pushed.stats.max_stacked_dirs
         THEN [pushed EXCEPT !.stats.max_stacked_dirs = Len(self.pending_dirs)]
         ELSE pushed

\* mutant: once a directory has been counted no further one is stacked
digest_dir_caps_stack(self, entry) ==
    IF self.stats.total_dirs_consumed >= 1
      THEN [self EXCEPT !.stats.total_dirs_consumed = @ + 1]
      ELSE [self EXCEPT !.pending_dirs = Append(@, entry),
                        !.stats.total_dirs_consumed = @ + 1,
                        !.stats.max_stacked_dirs = Max(@, Len(self.pending_dirs) + 1)]

digest_dir(self, entry) ==
    LET pushed == [self EXCEPT !.pending_dirs = Append(@, entry),
                               !.stats.total_dirs_consumed = @ + 1]
    IN IF Len(pushed.pending_dirs) > pushed.stats.max_stacked_dirs
         THEN [pushed EXCEPT !.stats.max_stacked_dirs = Len(pushed.pending_dirs)]
         ELSE pushed

\* mutant: an error message seen before has its paths replaced (insert) instead of extended
RegisterUnder_overwrites(map, err_str, path_string) ==
    IF err_str \in DOMAIN map
      THEN [map EXCEPT ![err_str] = <<path_string>>]
      ELSE map @@ (err_str :> <<path_string>>)

\* the HashMap<String, Vec<String>> update both register_* functions perform
RegisterUnder(map, err_str, path_string) ==
    LET withKey == IF err_str \in DOMAIN map THEN map ELSE map @@ (err_str :> <<>>)
    IN [withKey EXCEPT ![err_str] = Append(@, path_string)]

\* mutant: the directory being iterated is recorded instead of the entry
register_meta_error_current_path(self, e, entry) ==
    [self EXCEPT !.meta_errors = RegisterUnder(@, e, self.current_path)]

register_meta_error(self, e, entry) ==
    [self EXCEPT !.meta_errors = RegisterUnder(@, e, PathOf(entry))]

register_rd_error(self, e) ==
    [self EXCEPT !.rd_errors = RegisterUnder(@, e, self.current_path)]

count_file(self) == [self EXCEPT !.stats.total_files_consumed = @ + 1]

\* mutant: every call stamps the start time anew
next_prelude_restamps(self, t) ==
    [mark_start(self, t) EXCEPT !.stats.total_iterations = @ + 1]

\* the prelude of next(), before its loop
next_prelude(self, t) ==
    LET started == IF self.stats.iteration_started = <<>> THEN mark_start(self, t) ELSE self
    IN [started EXCEPT !.stats.total_iterations = @ + 1]

\* mutant: the file counter is bumped before the entry is known not to be a directory
next_entry_counts_dirs(self, entry, io) ==
    LET m == EntryMetadata(entry) IN
    IF m.ok
      THEN IF m.is_dir
             THEN Continue(digest_dir(count_file(self), entry), io \o m.io)
             ELSE Break(count_file(self), ItemOk(entry), io \o m.io)
      ELSE Break(register_meta_error(self, m.err, entry), ItemErr(m.err), io \o m.io)

\* mutant: a directory is entered as soon as it is read, ahead of the rest of
\* the handle it came from
next_entry_descends_at_once(self, entry, io) ==
    LET m == EntryMetadata(entry) IN
    IF m.ok
      THEN IF m.is_dir
             THEN LET o == FsReadDir(PathOf(entry))
                  IN Continue([self EXCEPT !.read_dir = o.handle \o @,
                                           !.stats.total_dirs_consumed = @ + 1],
                              io \o m.io \o o.io)
             ELSE Break(count_file(self), ItemOk(entry), io \o m.io)
      ELSE Break(register_meta_error(self, m.err, entry), ItemErr(m.err), io \o m.io)

\* the arm `Some(Ok(entry))` of the loop
next_entry(self, entry, io) ==
    LET m == EntryMetadata(entry) IN
    IF m.ok
      THEN IF m.is_dir
             THEN Continue(digest_dir(self, entry), io \o m.io)
             ELSE Break(count_file(self), ItemOk(entry), io \o m.io)
      ELSE Break(register_meta_error(self, m.err, entry), ItemErr(m.err), io \o m.io)

\* mutant: with nothing left the loop goes round again instead of returning None
next_exhausted_spins(self) ==
    IF self.pending_dirs # <<>>
      THEN LET dir_entry == Last(self.pending_dirs)
               popped == [self EXCEPT !.pending_dirs = Front(@)]
               entry_path == PathOf(dir_entry)
               o == FsReadDir(entry_path)
           IN IF o.ok
                THEN Continue([popped EXCEPT !.read_dir = o.handle,
                                             !.current_path = entry_path], o.io)
                ELSE Break(register_rd_error(popped, o.err), ItemErr(o.err), o.io)
      ELSE Continue(self, <<>>)

\* mutant: pending is taken from the front (remove(0)) instead of popped
next_exhausted_fifo(self) ==
    IF self.pending_dirs # <<>>
      THEN LET dir_entry == Head(self.pending_dirs)
               popped == [self EXCEPT !.pending_dirs = Tail(@)]
               entry_path == PathOf(dir_entry)
               o == FsReadDir(entry_path)
           IN IF o.ok
                THEN Continue([popped EXCEPT !.read_dir = o.handle,
                                             !.current_path = entry_path], o.io)
                ELSE Break(register_rd_error(popped, o.err), ItemErr(o.err), o.io)
      ELSE Break(self, ItemNone, <<>>)

\* mutant: at the end the root is opened again, ready for another round
next_exhausted_rewinds(self) ==
    IF self.pending_dirs # <<>>
      THEN LET dir_entry == Last(self.pending_dirs)
               popped == [self EXCEPT !.pending_dirs = Front(@)]
               entry_path == PathOf(dir_entry)
               o == FsReadDir(entry_path)
           IN IF o.ok
                THEN Continue([popped EXCEPT !.read_dir = o.handle,
                                             !.current_path = entry_path], o.io)
                ELSE Break(register_rd_error(popped, o.err), ItemErr(o.err), o.io)
      ELSE LET o == FsReadDir(RootPath)
           IN Break([self EXCEPT !.read_dir = o.handle], ItemNone, o.io)

\* the arm `None` of the loop
next_exhausted(self) ==
    IF self.pending_dirs # <<>>
      THEN LET dir_entry == Last(self.pending_dirs)
               popped == [self EXCEPT !.pending_dirs = Front(@)]
               entry_path == PathOf(dir_entry)
               o == FsReadDir(entry_path)
           IN IF o.ok
                THEN Continue([popped EXCEPT !.read_dir = o.handle,
                                             !.current_path = entry_path], o.io)
                ELSE Break(register_rd_error(popped, o.err), ItemErr(o.err), o.io)
      ELSE Break(self, ItemNone, <<>>)

\* mutant: a failed read abandons the rest of the directory
next_loop_err_drops_handle(self) ==
    LET r == ReadDirNext(self.read_dir)
        advanced == [self EXCEPT !.read_dir = r.rest]
    IN CASE r.tag = "Ok" -> next_entry(advanced, r.entry, r.io)
         [] r.tag = "Err" -> Break(register_rd_error([advanced EXCEPT !.read_dir = <<>>], r.err),
                                   ItemErr(r.err), r.io)
         [] OTHER -> next_exhausted(advanced)

\* one iteration of the loop of next()
next_loop(self) ==
    LET r == ReadDirNext(self.read_dir)
        advanced == [self EXCEPT !.read_dir = r.rest]
    IN CASE r.tag = "Ok" -> next_entry(advanced, r.entry, r.io)
         [] r.tag = "Err" -> Break(register_rd_error(advanced, r.err), ItemErr(r.err), r.io)
         [] OTHER -> next_exhausted(advanced)

-----------------------------------------------------------------------------
(* src/src/rdr.rs: the plain ReadDirRecursive *)

rdr_new(path) ==
    LET r == FsReadDir(path) IN
    IF r.ok
      THEN [ok |-> TRUE, err |-> NoErr, io |-> r.io,
            self |-> <<[pending_dirs |-> <<>>, read_dir |-> r.handle]>>]
      ELSE [ok |-> FALSE, err |-> r.err, io |-> r.io, self |-> <<>>]

\* mutant: the is_dir test is missing and every entry with metadata is yielded
rdr_next_entry_yields_dirs(self, entry, io) ==
    LET m == EntryMetadata(entry) IN
    IF m.ok
      THEN Break(self, ItemOk(entry), io \o m.io)
      ELSE Break(self, ItemErr(m.err), io \o m.io)

\* mutant: the push happens before the metadata is looked at
rdr_next_entry_pushes_all(self, entry, io) ==
    LET m == EntryMetadata(entry)
        pushed == [self EXCEPT !.pending_dirs = Append(@, entry)]
    IN IF m.ok
         THEN IF m.is_dir
                THEN Continue(pushed, io \o m.io)
                ELSE Break(pushed, ItemOk(entry), io \o m.io)
         ELSE Break(pushed, ItemErr(m.err), io \o m.io)

\* mutant: a directory is opened when it is found, to see that it can be, and
\* pushed all the same
rdr_next_entry_probes_dir(self, entry, io) ==
    LET m == EntryMetadata(entry) IN
    IF m.ok
      THEN IF m.is_dir
             THEN Continue([self EXCEPT !.pending_dirs = Append(@, entry)],
                           io \o m.io \o FsReadDir(PathOf(entry)).io)
             ELSE Break(self, ItemOk(entry), io \o m.io)
      ELSE Break(self, ItemErr(m.err), io \o m.io)

\* the arm `Some(Ok(entry))` of the loop
rdr_next_entry(self, entry, io) ==
    LET m == EntryMetadata(entry) IN
    IF m.ok
      THEN IF m.is_dir
             THEN Continue([self EXCEPT !.pending_dirs = Append(@, entry)], io \o m.io)
             ELSE Break(self, ItemOk(entry), io \o m.io)
      ELSE Break(self, ItemErr(m.err), io \o m.io)

\* mutant: the new handle is dropped and the exhausted one kept
rdr_next_exhausted_keeps_handle(self) ==
    IF self.pending_dirs # <<>>
      THEN LET dir_entry == Last(self.pending_dirs)
               popped == [self EXCEPT !.pending_dirs = Front(@)]
               entry_path == PathOf(dir_entry)
               o == FsReadDir(entry_path)
           IN IF o.ok
                THEN Continue(popped, o.io)
                ELSE Break(popped, ItemErr(o.err), o.io)
      ELSE Break(self, ItemNone, <<>>)

\* mutant: a directory that cannot be opened ends the sequence
rdr_next_exhausted_err_ends(self) ==
    IF self.pending_dirs # <<>>
      THEN LET dir_entry == Last(self.pending_dirs)
               popped == [self EXCEPT !.pending_dirs = Front(@)]
               entry_path == PathOf(dir_entry)
               o == FsReadDir(entry_path)
           IN IF o.ok
                THEN Continue([popped EXCEPT !.read_dir = o.handle], o.io)
                ELSE Break(popped, ItemNone, o.io)
      ELSE Break(self, ItemNone, <<>>)

\* mutant: pending is a queue, the oldest directory is taken first
rdr_next_exhausted_fifo(self) ==
    IF self.pending_dirs # <<>>
      THEN LET dir_entry == Head(self.pending_dirs)
               popped == [self EXCEPT !.pending_dirs = Tail(@)]
               entry_path == PathOf(dir_entry)
               o == FsReadDir(entry_path)
           IN IF o.ok
                THEN Continue([popped EXCEPT !.read_dir = o.handle], o.io)
                ELSE Break(popped, ItemErr(o.err), o.io)
      ELSE Break(self, ItemNone, <<>>)

\* the arm `None` of the loop
rdr_next_exhausted(self) ==
    IF self.pending_dirs # <<>>
      THEN LET dir_entry == Last(self.pending_dirs)
               popped == [self EXCEPT !.pending_dirs = Front(@)]
               entry_path == PathOf(dir_entry)
               o == FsReadDir(entry_path)
           IN IF o.ok
                THEN Continue([popped EXCEPT !.read_dir = o.handle], o.io)
                ELSE Break(popped, ItemErr(o.err), o.io)
      ELSE Break(self, ItemNone, <<>>)

\* one iteration of the loop of next()
rdr_next_loop(self) ==
    LET r == ReadDirNext(self.read_dir)
        advanced == [self EXCEPT !.read_dir = r.rest]
    IN CASE r.tag = "Ok" -> rdr_next_entry(advanced, r.entry, r.io)
         [] r.tag = "Err" -> Break(advanced, ItemErr(r.err), r.io)
         [] OTHER -> rdr_next_exhausted(advanced)

-----------------------------------------------------------------------------
(* src/src/find_dirs_with_component.rs: FindDirsWithComponent *)

\* file names, and the root paths and the component a search is built from
NameSet == {"target", "src", "lib"}
FindRoots == {<<".">>, <<"target">>, <<"nowhere">>}
FindComponents == {"target"}

\* trees whose entries carry their file name; the entries of one directory
\* have different names
RECURSIVE NamedTrees(_)
NamedTrees(k) ==
    IF k = 0 THEN {<<>>}
    ELSE UNION { UNION { { Append(t, [parent |-> p, is_dir |-> nk.is_dir, fail |-> nk.fail,
                                      name |-> nm]) :
                             nk \in NodeKinds,
                             nm \in {x \in NameSet :
                                       \A i \in 1..Len(t) : t[i].parent = p => t[i].name # x} } :
                         p \in DirsOf(t) } : t \in NamedTrees(k - 1) }

\* where the path given to new leads
Locate(path) == IF path = <<"nowhere">> THEN MissingPath ELSE RootPath

\* DirEntry::path: the path given to new joined with the file names down to the entry
EntryPath(entry) ==
    args.path \o [i \in 1..(Len(PathOf(entry)) - 1) |-> fs[PathOf(entry)[i + 1]].name]

\* path.components().any(|c| c.as_os_str() == component)
HasComponent(path, component) == \E i \in 1..Len(path) : path[i] = component

fdwc_new(path, component) ==
    LET r == FsReadDir(Locate(path)) IN
    IF r.ok
      THEN [ok |-> TRUE, err |-> NoErr, io |-> r.io,
            self |-> <<[component |-> component, pending_dirs |-> <<>>,
                        read_dir |-> r.handle]>>]
      ELSE [ok |-> FALSE, err |-> r.err, io |-> r.io, self |-> <<>>]

\* mutant: a matching directory is yielded and pushed as well
fdwc_next_entry_pushes_matches(self, entry, io) ==
    LET m == EntryMetadata(entry)
        pushed == [self EXCEPT !.pending_dirs = Append(@, entry)]
    IN IF m.ok
         THEN IF m.is_dir
                THEN IF HasComponent(EntryPath(entry), self.component)
                       THEN Break(pushed, ItemOk(entry), io \o m.io)
                       ELSE Continue(pushed, io \o m.io)
                ELSE Continue(self, io \o m.io)
         ELSE Break(self, ItemErr(m.err), io \o m.io)

\* mutant: the component test comes before the is_dir test
fdwc_next_entry_yields_files(self, entry, io) ==
    LET m == EntryMetadata(entry) IN
    IF m.ok
      THEN IF HasComponent(EntryPath(entry), self.component)
             THEN Break(self, ItemOk(entry), io \o m.io)
             ELSE IF m.is_dir
                    THEN Continue([self EXCEPT !.pending_dirs = Append(@, entry)], io \o m.io)
                    ELSE Continue(self, io \o m.io)
      ELSE Break(self, ItemErr(m.err), io \o m.io)

\* the arm `Some(Ok(entry))` of the loop
fdwc_next_entry(self, entry, io) ==
    LET m == EntryMetadata(entry) IN
    IF m.ok
      THEN IF m.is_dir
             THEN IF HasComponent(EntryPath(entry), self.component)
                    THEN Break(self, ItemOk(entry), io \o m.io)
                    ELSE Continue([self EXCEPT !.pending_dirs = Append(@, entry)], io \o m.io)
             ELSE Continue(self, io \o m.io)
      ELSE Break(self, ItemErr(m.err), io \o m.io)

\* mutant: opening one pending directory forgets the others
fdwc_next_exhausted_clears_pending(self) ==
    IF self.pending_dirs # <<>>
      THEN LET dir_entry == Last(self.pending_dirs)
               popped == [self EXCEPT !.pending_dirs = <<>>]
               entry_path == PathOf(dir_entry)
               o == FsReadDir(entry_path)
           IN IF o.ok
                THEN Continue([popped EXCEPT !.read_dir = o.handle], o.io)
                ELSE Break(popped, ItemErr(o.err), o.io)
      ELSE Break(self, ItemNone, <<>>)

\* the arm `None` of the loop
fdwc_next_exhausted(self) ==
    IF self.pending_dirs # <<>>
      THEN LET dir_entry == Last(self.pending_dirs)
               popped == [self EXCEPT !.pending_dirs = Front(@)]
               entry_path == PathOf(dir_entry)
               o == FsReadDir(entry_path)
           IN IF o.ok
                THEN Continue([popped EXCEPT !.read_dir = o.handle], o.io)
                ELSE Break(popped, ItemErr(o.err), o.io)
      ELSE Break(self, ItemNone, <<>>)

\* one iteration of the loop of next()
fdwc_next_loop(self) ==
    LET r == ReadDirNext(self.read_dir)
        advanced == [self EXCEPT !.read_dir = r.rest]
    IN CASE r.tag = "Ok" -> fdwc_next_entry(advanced, r.entry, r.io)
         [] r.tag = "Err" -> Break(advanced, ItemErr(r.err), r.io)
         [] OTHER -> fdwc_next_exhausted(advanced)

-----------------------------------------------------------------------------
(* The consumer: constructs one engine, then pulls *)

Self == rdr[1]

\* a run that drives a traversal engine has no filter, and the other way round
NoArgs == [path |-> <<>>, component |-> <<>>]
NoFilter ==
    /\ upstream = <<>>
    /\ filter = <<>>
    /\ out = <<>>
    /\ fends = 0
NoReRoot == reroot = <<>>

InitUpTo(n) ==
    /\ fs \in UNION {Trees(k) : k \in 0..n}
    /\ variant \in {"lib", "rdr"}
    /\ rdr = <<>>
    /\ pc = "start"
    /\ newRes = NoRet
    /\ ret = NoRet
    /\ now = 1
    /\ pulls = 0
    /\ ends = 0
    /\ yielded = <<>>
    /\ log = <<>>
    /\ maxPendingSeen = 0
    /\ entered = <<>>
    /\ args = NoArgs
    /\ NoFilter
    /\ NoReRoot

Init == InitUpTo(MaxNodes)
FairInit == InitUpTo(MaxFairNodes)

\* the caller's side of `ReadDirRecursive::new(path)`
Constructed(r) ==
    /\ rdr' = r.self
    /\ newRes' = IF r.ok THEN [NoRet EXCEPT !.tag = "Ok"] ELSE ItemErr(r.err)
    /\ pc' = IF r.ok THEN "idle" ELSE "failed"
    /\ log' = log \o r.io
    /\ UNCHANGED <<fs, variant, ret, now, pulls, ends, yielded, maxPendingSeen, entered, args>>
    /\ UNCHANGED <<filterVars, reroot>>

\* the caller's side of entering next()
Called(self) ==
    /\ rdr' = <<self>>
    /\ pc' = "loop"
    /\ pulls' = pulls + 1
    /\ now' = now + 1
    /\ entered' = rdr
    /\ UNCHANGED <<fs, variant, newRes, ret, ends, yielded, log, maxPendingSeen, args>>
    /\ UNCHANGED <<filterVars, reroot>>

\* the caller's side of one loop iteration: continue, or return the item
Looped(r) ==
    /\ rdr' = <<r.self>>
    /\ log' = log \o r.io
    /\ maxPendingSeen' = Max(maxPendingSeen, Len(r.self.pending_dirs))
    /\ IF r.ctl = "break"
         THEN /\ pc' = "idle"
              /\ ret' = r.val
              /\ yielded' = IF r.val.tag = "None" THEN yielded ELSE Append(yielded, r.val)
              /\ ends' = IF r.val.tag = "None" THEN ends + 1 ELSE ends
         ELSE /\ pc' = "loop"
              /\ UNCHANGED <<ret, yielded, ends>>
    /\ UNCHANGED <<fs, variant, newRes, now, pulls, entered, args>>
    /\ UNCHANGED <<filterVars, reroot>>

\* the consumer pulls until it has seen the end, and then ExtraPulls times more
MayPull == pulls < MaxPulls /\ ends <= ExtraPulls

LibNew == pc = "start" /\ variant = "lib" /\ \E path \in {RootPath, MissingPath} : Constructed(new(path))
LibNext == pc = "idle" /\ variant = "lib" /\ MayPull /\ Called(next_prelude(Self, now))
LibLoop == pc = "loop" /\ variant = "lib" /\ Looped(next_loop(Self))

RdrNew == pc = "start" /\ variant = "rdr" /\ \E path \in {RootPath, MissingPath} : Constructed(rdr_new(path))
RdrNext == pc = "idle" /\ variant = "rdr" /\ MayPull /\ Called(Self)
RdrLoop == pc = "loop" /\ variant = "rdr" /\ Looped(rdr_next_loop(Self))

Next == LibNew \/ LibNext \/ LibLoop \/ RdrNew \/ RdrNext \/ RdrLoop

Spec == Init /\ [][Next]_vars

\* the consumer keeps pulling and a started call runs on
FairSpec == FairInit /\ [][Next]_vars /\ WF_vars(Next)

\* a root that holds two files and one subdirectory with one file in it, and
\* nothing that fails; the root lists its three entries in any order
ScenarioTree(t) ==
    /\ Len(t) = 4
    /\ \A i \in 1..4 : t[i].fail = "none"
    /\ \E d \in 1..4 :
          /\ t[d].is_dir /\ t[d].parent = Root
          /\ Cardinality({i \in 1..4 : ~t[i].is_dir /\ t[i].parent = Root}) = 2
          /\ Cardinality({i \in 1..4 : ~t[i].is_dir /\ t[i].parent = d}) = 1

ScenarioEntries == [parent : 0..3, is_dir : BOOLEAN, fail : {"none"}]
ScenarioTrees ==
    {t \in {<<e1, e2, e3, e4>> : e1 \in ScenarioEntries, e2 \in ScenarioEntries,
                                e3 \in ScenarioEntries, e4 \in ScenarioEntries} :
        ScenarioTree(t) /\ \A i \in 1..4 : t[i].parent < i}

ScenarioInit ==
    /\ fs \in ScenarioTrees
    /\ variant \in {"lib", "rdr"}
    /\ rdr = <<>>
    /\ pc = "start"
    /\ newRes = NoRet
    /\ ret = NoRet
    /\ now = 1
    /\ pulls = 0
    /\ ends = 0
    /\ yielded = <<>>
    /\ log = <<>>
    /\ maxPendingSeen = 0
    /\ entered = <<>>
    /\ args = NoArgs
    /\ NoFilter
    /\ NoReRoot

ScenarioSpec == ScenarioInit /\ [][Next]_vars

\* the plain engine on deeper trees in which nothing fails
RECURSIVE PlainTrees(_)
PlainTrees(k) ==
    IF k = 0 THEN {<<>>}
    ELSE UNION { { Append(t, [parent |-> p, is_dir |-> d, fail |-> "none"]) :
                     p \in DirsOf(t), d \in BOOLEAN } : t \in PlainTrees(k - 1) }

DeepInit ==
    /\ fs \in UNION {PlainTrees(k) : k \in 0..MaxDeepNodes}
    /\ variant = "rdr"
    /\ rdr = <<>>
    /\ pc = "start"
    /\ newRes = NoRet
    /\ ret = NoRet
    /\ now = 1
    /\ pulls = 0
    /\ ends = 0
    /\ yielded = <<>>
    /\ log = <<>>
    /\ maxPendingSeen = 0
    /\ entered = <<>>
    /\ args = NoArgs
    /\ NoFilter
    /\ NoReRoot

MayPullDeep == pulls < MaxDeepNodes + 1 /\ ends = 0

DeepNew == pc = "start" /\ variant = "rdr" /\ Constructed(rdr_new(RootPath))
DeepPull == pc = "idle" /\ variant = "rdr" /\ MayPullDeep /\ Called(Self)
DeepLoop == pc = "loop" /\ variant = "rdr" /\ Looped(rdr_next_loop(Self))

DeepNext == DeepNew \/ DeepPull \/ DeepLoop

DeepSpec == DeepInit /\ [][DeepNext]_vars

\* The two engines side by side on one tree.  A call of next() runs its loop
\* to the break.
Returned(self, val, io) == [self |-> self, val |-> val, io |-> io]

RECURSIVE lib_run(_, _)
lib_run(self, io) ==
    LET r == next_loop(self) IN
    IF r.ctl = "break" THEN Returned(r.self, r.val, io \o r.io)
    ELSE lib_run(r.self, io \o r.io)

lib_next(self, t) == lib_run(next_prelude(self, t), <<>>)

RECURSIVE rdr_run(_, _)
rdr_run(self, io) ==
    LET r == rdr_next_loop(self) IN
    IF r.ctl = "break" THEN Returned(r.self, r.val, io \o r.io)
    ELSE rdr_run(r.self, io \o r.io)

rdr_next(self) == rdr_run(self, <<>>)

PairInit ==
    /\ fs \in UNION {Trees(k) : k \in 0..MaxNodes}
    /\ variant = "both"
    /\ rdr = <<>>
    /\ pc = "start"
    /\ newRes = <<>>
    /\ ret = NoRet
    /\ now = 1
    /\ pulls = 0
    /\ ends = 0
    /\ yielded = <<>>
    /\ log = <<>>
    /\ maxPendingSeen = 0
    /\ entered = <<>>
    /\ args = NoArgs
    /\ NoFilter
    /\ NoReRoot

\* both engines are built on the same path; rdr, newRes and log hold the
\* stats-tracking engine's side first and the plain engine's second
PairNew ==
    /\ pc = "start"
    /\ \E path \in {RootPath, MissingPath} :
          LET a == new(path)
              b == rdr_new(path)
          IN /\ rdr' = a.self \o b.self
             /\ newRes' = <<IF a.ok THEN [NoRet EXCEPT !.tag = "Ok"] ELSE ItemErr(a.err),
                            IF b.ok THEN [NoRet EXCEPT !.tag = "Ok"] ELSE ItemErr(b.err)>>
             /\ log' = <<a.io, b.io>>
             /\ pc' = IF a.ok /\ b.ok THEN "idle" ELSE "failed"
    /\ UNCHANGED <<fs, variant, ret, now, pulls, ends, yielded, maxPendingSeen, entered, args>>
    /\ UNCHANGED <<filterVars, reroot>>

\* one pull of each
PairPull ==
    /\ pc = "idle"
    /\ MayPull
    /\ LET a == lib_next(rdr[1], now)
           b == rdr_next(rdr[2])
       IN /\ rdr' = <<a.self, b.self>>
          /\ yielded' = Append(yielded, <<a.val, b.val>>)
          /\ log' = <<log[1] \o a.io, log[2] \o b.io>>
          /\ ends' = IF a.val.tag = "None" \/ b.val.tag = "None" THEN ends + 1 ELSE ends
    /\ pulls' = pulls + 1
    /\ now' = now + 1
    /\ UNCHANGED <<fs, variant, pc, newRes, ret, maxPendingSeen, entered, args>>
    /\ UNCHANGED <<filterVars, reroot>>

PairNext == PairNew \/ PairPull

PairSpec == PairInit /\ [][PairNext]_vars

-----------------------------------------------------------------------------
(* The consumer of a FindDirsWithComponent *)

FindInit ==
    /\ fs \in UNION {NamedTrees(k) : k \in 0..MaxFindNodes}
    /\ variant = "fdwc"
    /\ rdr = <<>>
    /\ pc = "start"
    /\ newRes = NoRet
    /\ ret = NoRet
    /\ now = 1
    /\ pulls = 0
    /\ ends = 0
    /\ yielded = <<>>
    /\ log = <<>>
    /\ maxPendingSeen = 0
    /\ entered = <<>>
    /\ args \in [path : FindRoots, component : FindComponents]
    /\ NoFilter
    /\ NoReRoot

MayPullFind == pulls < MaxFindNodes + 1 + ExtraPulls /\ ends <= ExtraPulls

FdwcNew == pc = "start" /\ variant = "fdwc" /\ Constructed(fdwc_new(args.path, args.component))
FdwcNext == pc = "idle" /\ variant = "fdwc" /\ MayPullFind /\ Called(Self)
FdwcLoop == pc = "loop" /\ variant = "fdwc" /\ Looped(fdwc_next_loop(Self))

FindNext == FdwcNew \/ FdwcNext \/ FdwcLoop

FindSpec == FindInit /\ [][FindNext]_vars

\* the searches over a tree in which nothing fails; the consumer keeps pulling
\* and a started call runs on
FairFindInit == FindInit /\ \A n \in Nodes : fs[n].fail = "none"
FairFindSpec == FairFindInit /\ [][FindNext]_vars /\ WF_vars(FindNext)

-----------------------------------------------------------------------------
(* The filter stages: src/src/component_filter.rs, src/src/allow_extensions.rs,
   src/src/extension_filter.rs *)

\* A path is the sequence of its components; a component is the sequence of the
\* pieces of its name between dots: a.txt is <<"a", "txt">>, .md is <<"", "md">>.
A_TXT == << <<"a", "txt">> >>
B_MD == << <<"b", "md">> >>
SUB_C_MD == << <<"sub">>, <<"c", "md">> >>
SUB == << <<"sub">> >>
X_SUB_MD == << <<"x">>, <<"sub", "md">> >>
DOT_MD == << <<"", "md">> >>
UPPER_MD == << <<"B", "MD">> >>
PathPool == {A_TXT, B_MD, SUB_C_MD, SUB, X_SUB_MD, DOT_MD, UPPER_MD}
ErrPool == {"EACCES", "ENOENT"}
ComponentPool == {<<"sub">>}
ExtensionLists == {<<>>, <<"md">>, <<"txt", "md">>}

\* what an upstream can produce; `at` is the position it will have in the upstream
\* (an item is Ok(v) or Err(e) of a Result, or a bare value v; ty tells a
\* DirEntry from a PathBuf)
ValItems(ty) == [tag : {"Val"}, ty : {ty}, path : PathPool, err : {NoErr}, at : {0}]
OkItems(ty) == [tag : {"Ok"}, ty : {ty}, path : PathPool, err : {NoErr}, at : {0}]
ErrItems0 == [tag : {"Err"}, ty : {"Error"}, path : {<<>>}, err : ErrPool, at : {0}]
FNone == [tag |-> "None", ty |-> "None", path |-> <<>>, err |-> NoErr, at |-> 0]

RECURSIVE SeqsUpTo(_, _)
SeqsUpTo(S, k) ==
    IF k = 0 THEN {<<>>}
    ELSE LET shorter == SeqsUpTo(S, k - 1)
         IN shorter \cup {Append(q, x) : q \in {r \in shorter : Len(r) = k - 1}, x \in S}

Placed(q) == [i \in 1..Len(q) |-> [q[i] EXCEPT !.at = i]]

\* the inner iterator self.0, and self.0.next()
Inner(items) == [items |-> items, pos |-> 0]
InnerNext(inner) ==
    IF inner.pos < Len(inner.items)
      THEN [some |-> TRUE, item |-> inner.items[inner.pos + 1],
            inner |-> [inner EXCEPT !.pos = @ + 1]]
      ELSE [some |-> FALSE, item |-> FNone, inner |-> inner]

Pulled(val, inner) == [val |-> val, inner |-> inner]

\* DirEntry::path
entry_path(dir_entry) == dir_entry.path

\* Path::extension: the part of the file name after its last dot; none when the
\* name has no dot, or only a leading one
extension(path) ==
    IF path = <<>> THEN <<>>
    ELSE LET file_name == Last(path)
         IN IF Len(file_name) = 1 \/ (Len(file_name) = 2 /\ file_name[1] = "")
              THEN <<>>
              ELSE <<Last(file_name)>>

\* mutant: only the file name is compared
path_has_component_file_name_only(path, osstr) == path # <<>> /\ Last(path) = osstr

path_has_component(path, osstr) == \E i \in 1..Len(path) : path[i] = osstr
path_buf_has_component(self, path_buf) == path_has_component(path_buf, self.component)
entry_has_component(self, dir_entry) == path_buf_has_component(self, entry_path(dir_entry))

\* mutant: Exclude lets every item through
Passes_exclude_passes_all(operation, has) == operation = "Exclude" \/ has

\* match (&self.2, has_component): which pairs break with the item
Passes(operation, has) ==
    CASE operation = "Include" /\ has -> TRUE
      [] operation = "Exclude" /\ ~has -> TRUE
      [] operation = "Include" /\ ~has -> FALSE
      [] operation = "Exclude" /\ has -> FALSE

\* mutant: the item handed out is not taken from the inner iterator
RECURSIVE component_filter_next_dir_entry_repeats(_, _)
component_filter_next_dir_entry_repeats(self, inner) ==
    LET n == InnerNext(inner) IN
    IF ~n.some THEN Pulled(FNone, n.inner)
    ELSE IF Passes(self.operation, entry_has_component(self, n.item))
           THEN Pulled(n.item, inner)
           ELSE component_filter_next_dir_entry_repeats(self, n.inner)

\* ComponentFilter<DirEntry, I>::next
RECURSIVE component_filter_next_dir_entry(_, _)
component_filter_next_dir_entry(self, inner) ==
    LET n == InnerNext(inner) IN
    IF ~n.some THEN Pulled(FNone, n.inner)
    ELSE IF Passes(self.operation, entry_has_component(self, n.item))
           THEN Pulled(n.item, n.inner)
           ELSE component_filter_next_dir_entry(self, n.inner)

\* mutant: an Err of the upstream is dropped like a value that does not pass
RECURSIVE component_filter_next_result_dir_entry_drops_err(_, _)
component_filter_next_result_dir_entry_drops_err(self, inner) ==
    LET n == InnerNext(inner) IN
    IF ~n.some THEN Pulled(FNone, n.inner)
    ELSE IF n.item.tag = "Ok" /\ Passes(self.operation, entry_has_component(self, n.item))
           THEN Pulled(n.item, n.inner)
           ELSE component_filter_next_result_dir_entry_drops_err(self, n.inner)

\* ComponentFilter<Result<DirEntry, E>, I>::next
RECURSIVE component_filter_next_result_dir_entry(_, _)
component_filter_next_result_dir_entry(self, inner) ==
    LET n == InnerNext(inner) IN
    IF ~n.some THEN Pulled(FNone, n.inner)
    ELSE IF n.item.tag = "Ok"
           THEN IF Passes(self.operation, entry_has_component(self, n.item))
                  THEN Pulled(n.item, n.inner)
                  ELSE component_filter_next_result_dir_entry(self, n.inner)
           ELSE Pulled(n.item, n.inner)

\* mutant: the operation is not looked at, a path passes when it has the component
RECURSIVE component_filter_next_path_buf_includes(_, _)
component_filter_next_path_buf_includes(self, inner) ==
    LET n == InnerNext(inner) IN
    IF ~n.some THEN Pulled(FNone, n.inner)
    ELSE IF path_buf_has_component(self, n.item.path)
           THEN Pulled(n.item, n.inner)
           ELSE component_filter_next_path_buf_includes(self, n.inner)

\* ComponentFilter<PathBuf, I>::next
RECURSIVE component_filter_next_path_buf(_, _)
component_filter_next_path_buf(self, inner) ==
    LET n == InnerNext(inner) IN
    IF ~n.some THEN Pulled(FNone, n.inner)
    ELSE IF Passes(self.operation, path_buf_has_component(self, n.item.path))
           THEN Pulled(n.item, n.inner)
           ELSE component_filter_next_path_buf(self, n.inner)

\* ComponentFilter<Result<PathBuf, E>, I>::next
RECURSIVE component_filter_next_result_path_buf(_, _)
component_filter_next_result_path_buf(self, inner) ==
    LET n == InnerNext(inner) IN
    IF ~n.some THEN Pulled(FNone, n.inner)
    ELSE IF n.item.tag = "Ok"
           THEN IF Passes(self.operation, path_buf_has_component(self, n.item.path))
                  THEN Pulled(n.item, n.inner)
                  ELSE component_filter_next_result_path_buf(self, n.inner)
           ELSE Pulled(n.item, n.inner)

\* Vec::contains
\* mutant: only the first element of the vector is compared
contains_first_only(list, x) == list # <<>> /\ list[1] = x

contains(list, x) == \E i \in 1..Len(list) : list[i] = x

\* AllowExtensions<Result<DirEntry, Error>, I>::next
RECURSIVE allow_extensions_next_result_dir_entry(_, _)
allow_extensions_next_result_dir_entry(self, inner) ==
    LET n == InnerNext(inner) IN
    IF ~n.some THEN Pulled(FNone, n.inner)
    ELSE IF n.item.tag = "Ok"
           THEN IF extension(entry_path(n.item)) # <<>> /\ contains(self.extensions, extension(entry_path(n.item))[1])
                  THEN Pulled(n.item, n.inner)
                  ELSE allow_extensions_next_result_dir_entry(self, n.inner)
           ELSE Pulled(n.item, n.inner)

\* mutant: the item after the one handed out is consumed and lost
RECURSIVE allow_extensions_next_dir_entry_skips_next(_, _)
allow_extensions_next_dir_entry_skips_next(self, inner) ==
    LET n == InnerNext(inner) IN
    IF ~n.some THEN Pulled(FNone, n.inner)
    ELSE IF extension(entry_path(n.item)) # <<>> /\ contains(self.extensions, extension(entry_path(n.item))[1])
           THEN Pulled(n.item, InnerNext(n.inner).inner)
           ELSE allow_extensions_next_dir_entry_skips_next(self, n.inner)

\* AllowExtensions<DirEntry, I>::next
RECURSIVE allow_extensions_next_dir_entry(_, _)
allow_extensions_next_dir_entry(self, inner) ==
    LET n == InnerNext(inner) IN
    IF ~n.some THEN Pulled(FNone, n.inner)
    ELSE IF extension(entry_path(n.item)) # <<>> /\ contains(self.extensions, extension(entry_path(n.item))[1])
           THEN Pulled(n.item, n.inner)
           ELSE allow_extensions_next_dir_entry(self, n.inner)

\* AllowExtensions<PathBuf, I>::next
RECURSIVE allow_extensions_next_path_buf(_, _)
allow_extensions_next_path_buf(self, inner) ==
    LET n == InnerNext(inner) IN
    IF ~n.some THEN Pulled(FNone, n.inner)
    ELSE IF extension(n.item.path) # <<>> /\ contains(self.extensions, extension(n.item.path)[1])
           THEN Pulled(n.item, n.inner)
           ELSE allow_extensions_next_path_buf(self, n.inner)

\* mutant: the flag is assigned on every turn and there is no break
scan_extensions_last_wins(list, ext) == list # <<>> /\ ext = Last(list)

\* the loop of is_allowed_extension over self.1
RECURSIVE scan_extensions(_, _)
scan_extensions(list, ext) ==
    IF list = <<>> THEN FALSE
    ELSE IF ext = Head(list) THEN TRUE
    ELSE scan_extensions(Tail(list), ext)

is_allowed_extension(self, ext) == scan_extensions(self.extensions, ext)

\* ExtensionFilter<Result<DirEntry, Error>, I>::next
RECURSIVE extension_filter_next_result_dir_entry(_, _)
extension_filter_next_result_dir_entry(self, inner) ==
    LET n == InnerNext(inner) IN
    IF ~n.some THEN Pulled(FNone, n.inner)
    ELSE IF n.item.tag = "Ok"
           THEN IF extension(entry_path(n.item)) # <<>> /\ is_allowed_extension(self, extension(entry_path(n.item))[1])
                  THEN Pulled(n.item, n.inner)
                  ELSE extension_filter_next_result_dir_entry(self, n.inner)
           ELSE Pulled(n.item, n.inner)

\* ExtensionFilter<DirEntry, I>::next
RECURSIVE extension_filter_next_dir_entry(_, _)
extension_filter_next_dir_entry(self, inner) ==
    LET n == InnerNext(inner) IN
    IF ~n.some THEN Pulled(FNone, n.inner)
    ELSE IF extension(entry_path(n.item)) # <<>> /\ is_allowed_extension(self, extension(entry_path(n.item))[1])
           THEN Pulled(n.item, n.inner)
           ELSE extension_filter_next_dir_entry(self, n.inner)

\* ExtensionFilter<PathBuf, I>::next
RECURSIVE extension_filter_next_path_buf(_, _)
extension_filter_next_path_buf(self, inner) ==
    LET n == InnerNext(inner) IN
    IF ~n.some THEN Pulled(FNone, n.inner)
    ELSE IF extension(n.item.path) # <<>> /\ is_allowed_extension(self, extension(n.item.path)[1])
           THEN Pulled(n.item, n.inner)
           ELSE extension_filter_next_path_buf(self, n.inner)

-----------------------------------------------------------------------------
(* src/src/result_filter.rs, src/src/error_collector.rs, src/src/entry_to_path.rs *)

\* Result::ok on an Ok, and the pattern Ok(t): the value without its wrapper
unwrapped(r) == [r EXCEPT !.tag = "Val"]

\* mutant: an Err is handed out as if it were a value
RECURSIVE result_filter_next_keeps_err(_, _)
result_filter_next_keeps_err(self, inner) ==
    LET n == InnerNext(inner) IN
    IF ~n.some THEN Pulled(FNone, n.inner)
    ELSE Pulled(unwrapped(n.item), n.inner)

\* mutant: after an item is handed out the next upstream item is consumed too
RECURSIVE result_filter_next_reads_ahead(_, _)
result_filter_next_reads_ahead(self, inner) ==
    LET n == InnerNext(inner) IN
    IF ~n.some THEN Pulled(FNone, n.inner)
    ELSE IF n.item.tag = "Ok"
           THEN Pulled(unwrapped(n.item), InnerNext(n.inner).inner)
           ELSE result_filter_next_reads_ahead(self, n.inner)

\* ResultFilter::next
RECURSIVE result_filter_next(_, _)
result_filter_next(self, inner) ==
    LET n == InnerNext(inner) IN
    IF ~n.some THEN Pulled(FNone, n.inner)
    ELSE IF n.item.tag = "Ok"
           THEN Pulled(unwrapped(n.item), n.inner)
           ELSE result_filter_next(self, n.inner)

\* a pull of a stage that owns or borrows state: the stage it leaves behind as well
PulledWith(val, inner, self) == [val |-> val, inner |-> inner, self |-> self]

\* mutant: the collection is cleared before an error is stored
RECURSIVE error_collector_next_keeps_last(_, _)
error_collector_next_keeps_last(self, inner) ==
    LET n == InnerNext(inner) IN
    IF ~n.some THEN PulledWith(FNone, n.inner, self)
    ELSE IF n.item.tag = "Ok"
           THEN PulledWith(unwrapped(n.item), n.inner, self)
           ELSE error_collector_next_keeps_last([self EXCEPT !.errors = <<n.item.err>>], n.inner)

\* ErrorCollector::next; self.errors is the borrowed Vec<E> self.1
RECURSIVE error_collector_next(_, _)
error_collector_next(self, inner) ==
    LET n == InnerNext(inner) IN
    IF ~n.some THEN PulledWith(FNone, n.inner, self)
    ELSE IF n.item.tag = "Ok"
           THEN PulledWith(unwrapped(n.item), n.inner, self)
           ELSE error_collector_next([self EXCEPT !.errors = Append(@, n.item.err)], n.inner)

\* e.path(): the PathBuf of a DirEntry
path_of_entry(e) == [e EXCEPT !.ty = "PathBuf", !.path = entry_path(e)]

\* mutant: the file name is given instead of the path
entry_to_path_next_result_dir_entry_file_name(self, inner) ==
    LET n == InnerNext(inner) IN
    IF ~n.some THEN Pulled(FNone, n.inner)
    ELSE IF n.item.tag = "Ok"
           THEN Pulled([n.item EXCEPT !.ty = "PathBuf", !.path = <<Last(entry_path(n.item))>>],
                       n.inner)
           ELSE Pulled(n.item, n.inner)

\* EntryToPath<DirEntry, I>::next
entry_to_path_next_dir_entry(self, inner) ==
    LET n == InnerNext(inner) IN
    IF n.some THEN Pulled(path_of_entry(n.item), n.inner)
    ELSE Pulled(FNone, n.inner)

\* EntryToPath<Result<DirEntry>, I>::next
entry_to_path_next_result_dir_entry(self, inner) ==
    LET n == InnerNext(inner) IN
    IF ~n.some THEN Pulled(FNone, n.inner)
    ELSE IF n.item.tag = "Ok"
           THEN Pulled(path_of_entry(n.item), n.inner)
           ELSE Pulled(n.item, n.inner)

-----------------------------------------------------------------------------
(* The consumer of one filter stage *)

FallibleShapes == {"Result<DirEntry>", "Result<PathBuf>"}
BareShapes == {"DirEntry", "PathBuf"}

\* what an ErrorCollector's vector may hold when the stage is built
PriorErrors == {<<>>, <<"EIO">>}

\* the stages that can be built: ComponentFilter(it, component, operation),
\* AllowExtensions(it, &extensions), ExtensionFilter::new(it, extensions),
\* ResultFilter(it), ErrorCollector(it, &mut errors), EntryToPath(it)
Stages ==
    [kind : {"ComponentFilter"}, shape : FallibleShapes \cup BareShapes,
     component : ComponentPool, operation : {"Include", "Exclude"}, extensions : {<<>>}]
    \cup
    [kind : {"AllowExtensions", "ExtensionFilter"},
     shape : {"Result<DirEntry>", "DirEntry", "PathBuf"},
     component : {<<>>}, operation : {"Include"}, extensions : ExtensionLists]
    \cup
    [kind : {"ResultFilter"}, shape : FallibleShapes]
    \cup
    [kind : {"ErrorCollector"}, shape : FallibleShapes, errors : PriorErrors]
    \cup
    [kind : {"EntryToPath"}, shape : {"DirEntry", "Result<DirEntry>"}]

\* the sequences an upstream of the given item shape can produce
PayloadOf(shape) == IF shape \in {"DirEntry", "Result<DirEntry>"} THEN "DirEntry" ELSE "PathBuf"
UpstreamsUpTo(shape, k) ==
    IF shape \in FallibleShapes
      THEN {Placed(q) : q \in SeqsUpTo(OkItems(PayloadOf(shape)) \cup ErrItems0, k)}
      ELSE {Placed(q) : q \in SeqsUpTo(ValItems(PayloadOf(shape)), k)}
Upstreams(shape) == UpstreamsUpTo(shape, MaxItems)

NoEngine ==
    /\ fs = <<>>
    /\ variant = "none"
    /\ rdr = <<>>
    /\ pc = "start"
    /\ newRes = NoRet
    /\ ret = NoRet
    /\ now = 1
    /\ pulls = 0
    /\ ends = 0
    /\ yielded = <<>>
    /\ log = <<>>
    /\ maxPendingSeen = 0
    /\ entered = <<>>
    /\ args = NoArgs

FilterInitUpTo(k) ==
    /\ NoEngine
    /\ filter \in Stages
    /\ upstream \in {Inner(q) : q \in UpstreamsUpTo(filter.shape, k)}
    /\ out = <<>>
    /\ fends = 0
    /\ NoReRoot

FilterInit == FilterInitUpTo(MaxItems)
FairFilterInit == FilterInitUpTo(MaxFairItems)

\* next() of each kind of stage: the impl for the stage's item shape
component_filter_next(self, inner) ==
    CASE self.shape = "DirEntry" -> component_filter_next_dir_entry(self, inner)
      [] self.shape = "Result<DirEntry>" -> component_filter_next_result_dir_entry(self, inner)
      [] self.shape = "PathBuf" -> component_filter_next_path_buf(self, inner)
      [] self.shape = "Result<PathBuf>" -> component_filter_next_result_path_buf(self, inner)

allow_extensions_next(self, inner) ==
    CASE self.shape = "Result<DirEntry>" -> allow_extensions_next_result_dir_entry(self, inner)
      [] self.shape = "DirEntry" -> allow_extensions_next_dir_entry(self, inner)
      [] self.shape = "PathBuf" -> allow_extensions_next_path_buf(self, inner)

extension_filter_next(self, inner) ==
    CASE self.shape = "Result<DirEntry>" -> extension_filter_next_result_dir_entry(self, inner)
      [] self.shape = "DirEntry" -> extension_filter_next_dir_entry(self, inner)
      [] self.shape = "PathBuf" -> extension_filter_next_path_buf(self, inner)

entry_to_path_next(self, inner) ==
    CASE self.shape = "DirEntry" -> entry_to_path_next_dir_entry(self, inner)
      [] self.shape = "Result<DirEntry>" -> entry_to_path_next_result_dir_entry(self, inner)

\* the stage a pull of a stage without state of its own leaves behind
Stateless(r, self) == PulledWith(r.val, r.inner, self)

\* Iterator::next of a stage
StageNext(self, inner) ==
    CASE self.kind = "ComponentFilter" -> Stateless(component_filter_next(self, inner), self)
      [] self.kind = "AllowExtensions" -> Stateless(allow_extensions_next(self, inner), self)
      [] self.kind = "ExtensionFilter" -> Stateless(extension_filter_next(self, inner), self)
      [] self.kind = "ResultFilter" -> Stateless(result_filter_next(self, inner), self)
      [] self.kind = "ErrorCollector" -> error_collector_next(self, inner)
      [] self.kind = "EntryToPath" -> Stateless(entry_to_path_next(self, inner), self)

\* `for item in stage`: everything the stage hands out until its first None
RECURSIVE Drain(_, _)
Drain(self, inner) ==
    LET r == StageNext(self, inner)
    IN IF r.val.tag = "None" THEN <<>> ELSE <<r.val>> \o Drain(r.self, r.inner)

\* the caller's side of one call of next() on the stage
StagePulled(r) ==
    /\ upstream' = r.inner
    /\ filter' = r.self
    /\ out' = IF r.val.tag = "None" THEN out ELSE Append(out, r.val)
    /\ fends' = IF r.val.tag = "None" THEN fends + 1 ELSE fends
    /\ UNCHANGED <<engineVars, reroot>>

FilterPulled(r) == StagePulled(Stateless(r, filter))

ComponentFilterNext ==
    /\ filter.kind = "ComponentFilter"
    /\ fends <= ExtraPulls
    /\ FilterPulled(component_filter_next(filter, upstream))

AllowExtensionsNext ==
    /\ filter.kind = "AllowExtensions"
    /\ fends <= ExtraPulls
    /\ FilterPulled(allow_extensions_next(filter, upstream))

ExtensionFilterNext ==
    /\ filter.kind = "ExtensionFilter"
    /\ fends <= ExtraPulls
    /\ FilterPulled(extension_filter_next(filter, upstream))

ResultFilterNext ==
    /\ filter.kind = "ResultFilter"
    /\ fends <= ExtraPulls
    /\ FilterPulled(result_filter_next(filter, upstream))

ErrorCollectorNext ==
    /\ filter.kind = "ErrorCollector"
    /\ fends <= ExtraPulls
    /\ StagePulled(error_collector_next(filter, upstream))

EntryToPathNext ==
    /\ filter.kind = "EntryToPath"
    /\ fends <= ExtraPulls
    /\ FilterPulled(entry_to_path_next(filter, upstream))

FilterNext ==
    \/ ComponentFilterNext
    \/ AllowExtensionsNext
    \/ ExtensionFilterNext
    \/ ResultFilterNext
    \/ ErrorCollectorNext
    \/ EntryToPathNext

FilterSpec == FilterInit /\ [][FilterNext]_vars

\* the consumer keeps pulling
FairFilterSpec == FairFilterInit /\ [][FilterNext]_vars /\ WF_vars(FilterNext)

-----------------------------------------------------------------------------
(* src/src/path_reroot.rs: path_re_root *)

\* A path as written: "/" is the root (first place only), "." the current
\* directory, anything else a name; <<>> is the empty path.
RootDir == "/"
CurDir == "."
PathNames == {"a", "b"}

RECURSIVE PathsUpTo(_)
PathsUpTo(k) ==
    IF k = 0 THEN {<<>>}
    ELSE LET shorter == PathsUpTo(k - 1)
         IN shorter \cup {<<t>> : t \in PathNames \cup {RootDir, CurDir}}
                    \cup {Append(q, t) : q \in {r \in shorter : Len(r) = k - 1 /\ k > 1},
                                         t \in PathNames \cup {CurDir}}

\* Path::components: a "." counts only in the first place, and a separator is
\* no component
RECURSIVE ComponentsFrom(_, _)
ComponentsFrom(path, i) ==
    IF i > Len(path) THEN <<>>
    ELSE IF i > 1 /\ path[i] \in {CurDir, RootDir}
           THEN ComponentsFrom(path, i + 1)
           ELSE <<path[i]>> \o ComponentsFrom(path, i + 1)
Components(path) == ComponentsFrom(path, 1)

\* Path == Path: component by component
PathEq(p, q) == Components(p) = Components(q)

StartsWith(q, pre) == Len(pre) <= Len(q) /\ SubSeq(q, 1, Len(pre)) = pre

\* Path::strip_prefix: the components of base are taken off the front; when
\* base has none the path is left as it is
strip_prefix(path, base) ==
    LET cp == Components(path)
        cb == Components(base)
    IN IF StartsWith(cp, cb)
         THEN [ok |-> TRUE,
               rest |-> IF cb = <<>> THEN path ELSE SubSeq(cp, Len(cb) + 1, Len(cp))]
         ELSE [ok |-> FALSE, rest |-> <<>>]

\* Path::join: an absolute path takes the place of self, any other is appended
join(self, path) ==
    IF path # <<>> /\ path[1] = RootDir THEN path ELSE self \o path

path_re_root(path, find, replace_by) ==
    LET s == strip_prefix(path, find) IN
    IF s.ok THEN [ok |-> TRUE, val |-> join(replace_by, s.rest)]
    ELSE [ok |-> FALSE, val |-> <<>>]

NotCalled == [ok |-> FALSE, val |-> <<"?">>]

ReRootInit ==
    /\ NoEngine
    /\ NoFilter
    /\ reroot \in [path : PathsUpTo(MaxPathLen), find : PathsUpTo(MaxPathLen),
                   replace_by : PathsUpTo(MaxPathLen), calls : {0},
                   there : {NotCalled}, back : {NotCalled}]

\* path_re_root(path, find, replace_by)
ReRootThere ==
    /\ reroot # <<>>
    /\ reroot.calls = 0
    /\ reroot' = [reroot EXCEPT !.calls = 1,
                                !.there = path_re_root(reroot.path, reroot.find, reroot.replace_by)]
    /\ UNCHANGED <<engineVars, filterVars>>

\* the way back, on the result: path_re_root(r, replace_by, find)
ReRootBack ==
    /\ reroot # <<>>
    /\ reroot.calls = 1
    /\ reroot.there.ok
    /\ reroot' = [reroot EXCEPT !.calls = 2,
                                !.back = path_re_root(reroot.there.val, reroot.replace_by, reroot.find)]
    /\ UNCHANGED <<engineVars, filterVars>>

ReRootNext == ReRootThere \/ ReRootBack

ReRootSpec == ReRootInit /\ [][ReRootNext]_vars

-----------------------------------------------------------------------------
(* src/src/path_reroot.rs: PathReRoot *)

\* the prefixes a PathReRoot is built with
StripPrefixes == {<<>>, <<RootDir>>, <<"a">>}
Replacements == {<<>>, <<"b">>}

\* the paths an upstream of a PathReRoot hands out: every path of up to two places
UpstreamPaths == PathsUpTo(2)

NoPair == [original |-> <<>>, rooted |-> NotCalled]
PairPulled(some, pair, inner) == [some |-> some, pair |-> pair, inner |-> inner]

\* mutant: a path that does not have the prefix ends the sequence
path_re_root_next_stops(self, inner) ==
    LET n == InnerNext(inner) IN
    IF n.some
      THEN LET rooted == path_re_root(n.item, self.strip_prefix, self.replace_by)
           IN IF rooted.ok
                THEN PairPulled(TRUE, [original |-> n.item, rooted |-> rooted], n.inner)
                ELSE PairPulled(FALSE, NoPair, n.inner)
      ELSE PairPulled(FALSE, NoPair, n.inner)

\* PathReRoot::next
path_re_root_next(self, inner) ==
    LET n == InnerNext(inner) IN
    IF n.some
      THEN LET rooted == path_re_root(n.item, self.strip_prefix, self.replace_by)
           IN PairPulled(TRUE, [original |-> n.item, rooted |-> rooted], n.inner)
      ELSE PairPulled(FALSE, NoPair, n.inner)

PathReRootInit ==
    /\ NoEngine
    /\ NoReRoot
    /\ filter \in [kind : {"PathReRoot"}, strip_prefix : StripPrefixes, replace_by : Replacements]
    /\ upstream \in {Inner(q) : q \in SeqsUpTo(UpstreamPaths, MaxPaths)}
    /\ out = <<>>
    /\ fends = 0

\* one turn of `for (original, result) in fs_iter`
PathReRootNext ==
    /\ fends <= ExtraPulls
    /\ LET r == path_re_root_next(filter, upstream)
       IN /\ upstream' = r.inner
          /\ out' = IF r.some THEN Append(out, r.pair) ELSE out
          /\ fends' = IF r.some THEN fends ELSE fends + 1
    /\ UNCHANGED <<engineVars, filter, reroot>>

PathReRootSpec == PathReRootInit /\ [][PathReRootNext]_vars

-----------------------------------------------------------------------------
(* What the claims speak of *)

Exists == rdr # <<>>
IsLib == Exists /\ variant = "lib"
Pending == Self.pending_dirs
PendingSet == {Pending[i] : i \in 1..Len(Pending)}
NoFailures == newRes.tag = "Ok" /\ \A n \in Nodes : fs[n].fail = "none"

OkYielded == Count(yielded, LAMBDA it : it.tag = "Ok")
ErrYielded == Count(yielded, LAMBDA it : it.tag = "Err")
YieldsOf(n) == Count(yielded, LAMBDA it : it.tag = "Ok" /\ it.entry = n)
OpensOf(d) == Count(log, LAMBDA e : e.op = "open" /\ e.node = d)
FilesSeen == Count(log, LAMBDA e : e.op = "meta" /\ e.res = "file")
DirsSeen == Count(log, LAMBDA e : e.op = "meta" /\ e.res = "dir")
Pops == Count(log, LAMBDA e : e.op = "open" /\ e.node \in Nodes)
Logged(e) == \E j \in 1..Len(log) : log[j] = e
\* when entry n was found to be a directory
PushIndex(n) == CHOOSE j \in 1..Len(log) : log[j] = Ev("meta", n, "dir")

-----------------------------------------------------------------------------
(* C1: in the stats-tracking engine total_files_consumed equals the number of
   Ok items yielded so far, which equals the number of entries read so far
   whose metadata query succeeded and reported a non-directory. *)
C1_FilesConsumed ==
    IsLib => /\ Self.stats.total_files_consumed = OkYielded
             /\ OkYielded = FilesSeen

C1_Witness ==
    /\ IsLib
    /\ Self.stats.total_files_consumed = 2
    /\ \E j \in 1..Len(log) : log[j].op = "meta" /\ log[j].res = "dir"

(* C2: no directory is ever yielded: every Ok item is an entry whose metadata
   query succeeded and reported a non-directory; and every completed pull
   returned one item or the end, never more. *)
C2_NeverYieldsDirectory ==
    /\ \A i \in 1..Len(yielded) :
         yielded[i].tag = "Ok" =>
            LET n == yielded[i].entry
            IN /\ n \in Nodes
               /\ ~fs[n].is_dir
               /\ fs[n].fail = "none"
               /\ Logged(Ev("meta", n, "file"))
    /\ Len(yielded) + ends = pulls - (IF pc = "loop" THEN 1 ELSE 0)

C2_Witness ==
    /\ variant = "rdr"
    /\ ends = 1
    /\ OkYielded >= 1
    /\ DirsSeen >= 1

(* C3: with no failure, once a pull has returned the end every non-directory
   entry of the tree has been yielded exactly once and every directory has
   been opened exactly once (the root by new, the others by one pop each);
   before that, nothing is yielded or opened twice. *)
C3_CompleteTraversal ==
    (Exists /\ NoFailures) =>
       /\ OpensOf(Root) = 1
       /\ \A n \in Nodes : YieldsOf(n) <= 1 /\ OpensOf(n) <= 1
       /\ ends > 0 =>
            /\ \A n \in Nodes :
                 IF fs[n].is_dir THEN OpensOf(n) = 1 /\ YieldsOf(n) = 0
                                 ELSE YieldsOf(n) = 1 /\ OpensOf(n) = 0
            /\ Len(yielded) = OkYielded
            /\ Pops = DirsSeen

C3_Witness ==
    /\ variant = "rdr"
    /\ NoFailures
    /\ ends = 1
    /\ \E n \in Nodes : ~fs[n].is_dir /\ fs[n].parent # Root /\ YieldsOf(n) = 1
    /\ \E n \in Nodes : ~fs[n].is_dir /\ fs[n].parent = Root

(* C4: a pull returns the end only with the active handle exhausted and
   pending empty. *)
C4_EndOnlyWhenDrained ==
    (Exists /\ pc = "idle" /\ ret.tag = "None") =>
       /\ Self.read_dir = <<>>
       /\ Self.pending_dirs = <<>>

C4_Witness ==
    /\ Exists /\ pc = "idle" /\ ret.tag = "None"
    /\ maxPendingSeen >= 2
    /\ ErrYielded >= 1

(* C5: every call of next() returns, and a consumer that keeps pulling
   eventually receives the end, whatever the tree and the failures. *)
C5_Termination ==
    /\ (pc = "loop") ~> (pc = "idle")
    /\ Exists ~> (ends > 0)

C5_Witness ==
    /\ ends > 0
    /\ Len(fs) = MaxFairNodes
    /\ \E n \in Nodes : fs[n].fail = "open" /\ Logged(Ev("open", n, "err"))
    /\ \E n \in Nodes : fs[n].fail = "meta" /\ Logged(Ev("meta", n, "err"))

(* C6: when the active handle is exhausted and pending is not empty, the
   directory opened next is the entry of pending that was pushed last, and
   that entry alone leaves pending. *)
C6_Step ==
    (Exists /\ pc = "loop" /\ Self.read_dir = <<>> /\ Pending # <<>>) =>
       LET d == CHOOSE n \in PendingSet : \A m \in PendingSet : PushIndex(m) <= PushIndex(n)
       IN /\ Len(log') = Len(log) + 1
          /\ Last(log').op = "open"
          /\ Last(log').node = d
          /\ \E i \in 1..Len(Pending) :
                /\ Pending[i] = d
                /\ rdr'[1].pending_dirs =
                      SubSeq(Pending, 1, i - 1) \o SubSeq(Pending, i + 1, Len(Pending))

C6_LIFO == [][C6_Step]_vars

C6_Witness ==
    /\ Exists
    /\ \E j \in 1..Len(log) :
          /\ log[j].op = "open"
          /\ log[j].node \in Nodes
          /\ \E m \in PendingSet : PushIndex(m) < PushIndex(log[j].node)

(* C7: every element of pending is an entry whose metadata query succeeded
   and reported a directory. *)
C7_PendingHoldsDirectories ==
    Exists =>
      \A i \in 1..Len(Pending) :
         LET n == Pending[i]
         IN /\ n \in Nodes
            /\ fs[n].is_dir
            /\ fs[n].fail \notin {"read", "meta"}
            /\ Logged(Ev("meta", n, "dir"))

C7_Witness ==
    /\ IsLib
    /\ Len(Pending) >= 1
    /\ \E n \in Nodes : fs[n].is_dir /\ Logged(Ev("meta", n, "err"))
    /\ \E n \in Nodes : Logged(Ev("meta", n, "file"))

(* C8: in the stats-tracking engine total_dirs_consumed equals the number of
   entries read so far whose metadata query succeeded and reported a
   directory, which is the number of pushes onto pending: the entries still
   in pending plus those popped. *)
C8_DirsConsumed ==
    IsLib => /\ Self.stats.total_dirs_consumed = DirsSeen
             /\ Self.stats.total_dirs_consumed = Len(Pending) + Pops

C8_Witness ==
    /\ IsLib
    /\ Self.stats.total_dirs_consumed >= 2
    /\ Pops >= 1
    /\ Len(Pending) >= 1
    /\ FilesSeen >= 1

(* C9: in the stats-tracking engine max_stacked_dirs is the largest length
   pending has had so far; so it is at least the current length of pending,
   at most total_dirs_consumed, and no step decreases it. *)
C9_State ==
    IsLib => /\ Self.stats.max_stacked_dirs = maxPendingSeen
             /\ Self.stats.max_stacked_dirs >= Len(Pending)
             /\ Self.stats.max_stacked_dirs <= Self.stats.total_dirs_consumed

C9_Step == IsLib => rdr'[1].stats.max_stacked_dirs >= Self.stats.max_stacked_dirs

C9_HighWaterMark == [](C9_State) /\ [][C9_Step]_vars

C9_Witness ==
    /\ IsLib
    /\ Self.stats.max_stacked_dirs = 2
    /\ Len(Pending) < Self.stats.max_stacked_dirs
    /\ Self.stats.max_stacked_dirs < Self.stats.total_dirs_consumed

(* C10: when opening the root path fails, new returns the error and there is
   no engine: nothing can be pulled and nothing was; when it succeeds, the
   engine starts with pending empty, every counter zero, no start time and
   both error logs empty. *)
RootOpenFailed == log # <<>> /\ log[1].op = "open" /\ log[1].res = "err"
RootOpened == log # <<>> /\ log[1].op = "open" /\ log[1].res = "ok"

C10_Construction ==
    /\ RootOpenFailed =>
          /\ newRes.tag = "Err"
          /\ newRes.err = ErrOf(log[1].node)
          /\ rdr = <<>>
          /\ pulls = 0 /\ yielded = <<>> /\ Len(log) = 1
          /\ ~ENABLED (LibNext \/ LibLoop \/ RdrNext \/ RdrLoop)
    /\ (RootOpened /\ pulls = 0) =>
          /\ newRes.tag = "Ok"
          /\ Exists
          /\ Self.pending_dirs = <<>>
          /\ variant = "lib" =>
                /\ Self.stats.iteration_started = <<>>
                /\ Self.stats.total_iterations = 0
                /\ Self.stats.total_files_consumed = 0
                /\ Self.stats.total_dirs_consumed = 0
                /\ Self.stats.max_stacked_dirs = 0
                /\ DOMAIN Self.meta_errors = {}
                /\ DOMAIN Self.rd_errors = {}
    /\ pc = "start" => rdr = <<>> /\ log = <<>>

C10_Witness == RootOpenFailed /\ variant = "lib" /\ pc = "failed"

-----------------------------------------------------------------------------
(* Failures and the error logs *)

\* the failures met after construction, in the order they were met
ErrEvents == SelectSeq(log, LAMBDA e : e.res = "err" /\ e.node \in Nodes)
ErrItems == SelectSeq(yielded, LAMBDA it : it.tag = "Err")
EventsAt(n, op) == Count(log, LAMBDA e : e.node = n /\ e.op = op)
Stepped == Len(log') > Len(log)
PathsUnder(map, k) == IF k \in DOMAIN map THEN map[k] ELSE <<>>

RECURSIVE TotalPaths(_, _)
TotalPaths(map, keys) ==
    IF keys = {} THEN 0
    ELSE LET k == CHOOSE x \in keys : TRUE
         IN Len(map[k]) + TotalPaths(map, keys \ {k})

(* C11: every failure met after construction is returned as one Err item by
   the step that met it; no entry is read, queried or opened twice; and once
   the end is returned every entry of every opened directory has been read
   and every directory found has been opened, failures or not. *)
C11_FailuresAreNotFatal ==
    Exists =>
       /\ Len(ErrItems) = Len(ErrEvents)
       /\ \A i \in 1..Len(ErrItems) : ErrItems[i].err = ErrOf(ErrEvents[i].node)
       /\ \A n \in Nodes :
            EventsAt(n, "read") <= 1 /\ EventsAt(n, "meta") <= 1 /\ EventsAt(n, "open") <= 1
       /\ ends > 0 =>
            /\ \A n \in Nodes :
                 Logged(Ev("open", fs[n].parent, "ok")) => EventsAt(n, "read") = 1
            /\ \A n \in Nodes : Logged(Ev("meta", n, "dir")) => EventsAt(n, "open") = 1
            /\ \A n \in Nodes : Logged(Ev("read", n, "ok")) => EventsAt(n, "meta") = 1

C11_Witness ==
    /\ variant = "lib"
    /\ ends = 1
    /\ \E i, j \in 1..Len(log) :
          /\ i < j
          /\ log[i].res = "err" /\ log[i].node \in Nodes
          /\ log[j].op = "read"
          /\ fs[log[i].node].parent = fs[log[j].node].parent
    /\ \E i, j \in 1..Len(log) :
          /\ i < j
          /\ log[i].res = "err"
          /\ log[j].op = "open" /\ log[j].node \in Nodes

(* C12, as stated: a pull that ends in a failed metadata query leaves
   pending, total_files_consumed, total_dirs_consumed and max_stacked_dirs as
   they were when the pull began. *)
C12_PullLeavesCountersAlone ==
    (IsLib /\ pc = "idle" /\ ret.tag = "Err" /\ Last(log).op = "meta" /\ Last(log).res = "err") =>
       /\ Self.pending_dirs = entered[1].pending_dirs
       /\ Self.stats.total_files_consumed = entered[1].stats.total_files_consumed
       /\ Self.stats.total_dirs_consumed = entered[1].stats.total_dirs_consumed
       /\ Self.stats.max_stacked_dirs = entered[1].stats.max_stacked_dirs

(* C12, amended: the loop iteration that meets a failed metadata query
   returns that error and leaves pending, total_files_consumed,
   total_dirs_consumed, max_stacked_dirs and rd_errors unchanged; meta_errors
   gains the entry's own path, last under the error's message, and nothing
   else. *)
C12_Step ==
    (IsLib /\ Stepped /\ Last(log').op = "meta" /\ Last(log').res = "err") =>
       LET n == Last(log').node
           before == Self
           after == rdr'[1]
       IN /\ pc' = "idle"
          /\ ret' = ItemErr(ErrOf(n))
          /\ yielded' = Append(yielded, ItemErr(ErrOf(n)))
          /\ after.pending_dirs = before.pending_dirs
          /\ after.stats = before.stats
          /\ after.rd_errors = before.rd_errors
          /\ DOMAIN after.meta_errors = DOMAIN before.meta_errors \cup {ErrOf(n)}
          /\ after.meta_errors[ErrOf(n)] =
                Append(PathsUnder(before.meta_errors, ErrOf(n)), PathOf(n))
          /\ \A k \in DOMAIN before.meta_errors \ {ErrOf(n)} :
                after.meta_errors[k] = before.meta_errors[k]

C12_MetadataFailureFrame == [][C12_Step]_vars

C12_Witness ==
    /\ IsLib /\ pc = "idle" /\ ret.tag = "Err"
    /\ Last(log).op = "meta" /\ Last(log).res = "err"
    /\ Len(Self.meta_errors[ret.err]) = 2
    /\ Self.pending_dirs # entered[1].pending_dirs

(* C13: in the stats-tracking engine the number of Err items yielded so far
   is the number of paths stored in meta_errors and rd_errors together, and
   so it is message by message. *)
C13_ErrorsLoggedOnce ==
    IsLib =>
       /\ ErrYielded = TotalPaths(Self.meta_errors, DOMAIN Self.meta_errors)
                        + TotalPaths(Self.rd_errors, DOMAIN Self.rd_errors)
       /\ \A k \in DOMAIN Self.meta_errors \cup DOMAIN Self.rd_errors \cup {"EACCES", "ENOENT"} :
             Count(yielded, LAMBDA it : it.tag = "Err" /\ it.err = k) =
                Len(PathsUnder(Self.meta_errors, k)) + Len(PathsUnder(Self.rd_errors, k))
       /\ TotalPaths(Self.meta_errors, DOMAIN Self.meta_errors) =
             Count(log, LAMBDA e : e.op = "meta" /\ e.res = "err")

C13_Witness ==
    /\ IsLib
    /\ ErrYielded = 3
    /\ \E k \in DOMAIN Self.meta_errors : Len(Self.meta_errors[k]) = 2
    /\ DOMAIN Self.rd_errors # {}

(* C14: when opening a popped directory fails, the path recorded last in
   rd_errors under the error's message is the path of the directory whose
   open failed. *)
C14_OpenFailurePath ==
    (IsLib /\ pc = "idle" /\ ret.tag = "Err"
       /\ Last(log).op = "open" /\ Last(log).res = "err" /\ Last(log).node \in Nodes) =>
       /\ ret.err \in DOMAIN Self.rd_errors
       /\ Last(Self.rd_errors[ret.err]) = PathOf(Last(log).node)

-----------------------------------------------------------------------------
(* FindDirsWithComponent *)

IsFind == Exists /\ variant = "fdwc"
Matches(n) == HasComponent(EntryPath(n), args.component)
Beneath(m, n) == m # n /\ \E i \in 1..Len(PathOf(m)) : PathOf(m)[i] = n
Touched(n) == \E j \in 1..Len(log) : log[j].node = n
FoundDir(n) == Logged(Ev("meta", n, "dir"))

(* C15: a directory entry whose path has a component equal to the designated
   name is yielded by the step that reads it, is never pushed onto pending
   and never opened, and no entry beneath it is ever read or yielded. *)
C15_MatchIsYieldedNotEntered ==
    IsFind =>
       \A n \in Nodes :
          (FoundDir(n) /\ Matches(n)) =>
             /\ YieldsOf(n) = 1
             /\ n \notin PendingSet
             /\ OpensOf(n) = 0
             /\ \A m \in Nodes : Beneath(m, n) => ~Touched(m) /\ YieldsOf(m) = 0

C15_Witness ==
    /\ IsFind /\ ends = 1
    /\ args.path = <<".">>
    /\ \E n \in Nodes : YieldsOf(n) = 1 /\ Matches(n) /\ Children(n) # {}

(* C16: every Ok item is an entry whose metadata reported a directory; a
   non-directory entry is never yielded, pushed or opened, whatever its name,
   and the engine keeps no counter: reading one changes nothing but the
   position in the directory being read. *)
C16_State ==
    IsFind =>
       /\ \A i \in 1..Len(yielded) :
             yielded[i].tag = "Ok" =>
                /\ yielded[i].entry \in Nodes
                /\ fs[yielded[i].entry].is_dir
                /\ FoundDir(yielded[i].entry)
       /\ \A n \in Nodes :
             ~fs[n].is_dir => YieldsOf(n) = 0 /\ n \notin PendingSet /\ OpensOf(n) = 0
       /\ DOMAIN Self = {"component", "read_dir", "pending_dirs"}

C16_Step ==
    (IsFind /\ Stepped /\ Last(log').op = "meta" /\ Last(log').res = "file") =>
       /\ pc' = "loop"
       /\ yielded' = yielded
       /\ rdr'[1] = [Self EXCEPT !.read_dir = Tail(@)]

C16_DirectoriesOnly == [](C16_State) /\ [][C16_Step]_vars

C16_Witness ==
    /\ IsFind /\ ends = 1
    /\ \E n \in Nodes : Logged(Ev("meta", n, "file")) /\ fs[n].name = args.component
    /\ \E n \in Nodes : YieldsOf(n) = 1

(* C17: every directory yielded has a final path component equal to the
   component given as parameter, for every root path and every tree. *)
C17_YieldedNameIsComponent ==
    IsFind =>
       \A i \in 1..Len(yielded) :
          yielded[i].tag = "Ok" => fs[yielded[i].entry].name = args.component

(* C18: with no failures and a consumer that pulls until the end, the end is
   returned, and by then every directory that does not match and is not
   beneath a matching directory has been opened exactly once and every
   matching directory not beneath another matching directory has been yielded
   exactly once; nothing is ever yielded twice. *)
Reachable(n) == \A a \in Nodes : Beneath(n, a) => ~(fs[a].is_dir /\ Matches(a))
C18_Done ==
    /\ ends > 0
    /\ Self.pending_dirs = <<>>
    /\ \A n \in Nodes :
          (fs[n].is_dir /\ ~Matches(n) /\ Reachable(n)) => OpensOf(n) = 1
    /\ \A n \in Nodes :
          (fs[n].is_dir /\ Matches(n) /\ Reachable(n)) => YieldsOf(n) = 1
    /\ \A n \in Nodes : YieldsOf(n) > 0 => fs[n].is_dir /\ Matches(n) /\ Reachable(n)

C18_SearchIsComplete ==
    /\ (IsFind /\ NoFailures) ~> C18_Done
    /\ []((IsFind /\ NoFailures) => \A n \in Nodes : YieldsOf(n) <= 1 /\ OpensOf(n) <= 1)
    /\ []((IsFind /\ NoFailures /\ ends > 0) => C18_Done)

C18_Witness ==
    /\ IsFind /\ NoFailures /\ ends = 1
    /\ args.path = <<".">>
    /\ \E n, m \in Nodes :
          /\ fs[n].is_dir /\ ~Matches(n) /\ OpensOf(n) = 1
          /\ fs[m].is_dir /\ fs[m].parent = n /\ YieldsOf(m) = 1

-----------------------------------------------------------------------------
(* The filter stages *)

Consumed == SubSeq(upstream.items, 1, upstream.pos)
Fallible == filter.shape \in FallibleShapes
PredicateStages == {"ComponentFilter", "AllowExtensions", "ExtensionFilter"}
ErrsOf(q) == SelectSeq(q, LAMBDA it : it.tag = "Err")
PathsOf(q) == [i \in 1..Len(q) |-> q[i].path]

(* C19: over a fallible upstream, the Err items put out by ComponentFilter,
   AllowExtensions and ExtensionFilter are exactly the Err items consumed from
   the upstream, each one unchanged, once, and the output keeps the upstream's
   order; at the end every Err item of the upstream has been put out. *)
C19_ErrorsPassThrough ==
    (Fallible /\ filter.kind \in PredicateStages) =>
       /\ ErrsOf(out) = ErrsOf(Consumed)
       /\ \A i \in 1..Len(out) :
             /\ out[i].at \in 1..upstream.pos
             /\ out[i] = upstream.items[out[i].at]
       /\ \A i, j \in 1..Len(out) : i < j => out[i].at < out[j].at
       /\ fends > 0 => ErrsOf(out) = ErrsOf(upstream.items)

C19_Witness ==
    /\ Fallible /\ filter.kind \in PredicateStages /\ fends = 1
    /\ Len(out) < Len(upstream.items)
    /\ \E i \in 1..Len(out) : out[i].tag = "Err" /\ out[i].at > 1
    /\ \E i \in 1..Len(out) : out[i].tag = "Ok"

(* C20: ComponentFilter puts out a successful upstream item exactly when the
   policy is Include and some component of its path equals the configured
   name, or the policy is Exclude and none does; excluding sub from a.txt,
   b.md, sub/c.md gives exactly a.txt and b.md. *)
InTable(it) ==
    \/ filter.operation = "Include" /\ \E i \in 1..Len(it.path) : it.path[i] = filter.component
    \/ filter.operation = "Exclude" /\ \A i \in 1..Len(it.path) : it.path[i] # filter.component

C20_ComponentTruthTable ==
    filter.kind = "ComponentFilter" =>
       /\ \A k \in 1..upstream.pos :
             upstream.items[k].tag # "Err" =>
                (InTable(upstream.items[k]) <=> \E i \in 1..Len(out) : out[i] = upstream.items[k])
       /\ (/\ filter.operation = "Exclude" /\ filter.component = <<"sub">>
           /\ PathsOf(upstream.items) = <<A_TXT, B_MD, SUB_C_MD>>
           /\ fends > 0)
          => PathsOf(out) = <<A_TXT, B_MD>>

C20_Witness ==
    /\ filter.kind = "ComponentFilter" /\ filter.shape = "Result<DirEntry>"
    /\ filter.operation = "Exclude" /\ filter.component = <<"sub">>
    /\ PathsOf(upstream.items) = <<A_TXT, B_MD, SUB_C_MD>>
    /\ \A i \in 1..Len(upstream.items) : upstream.items[i].tag = "Ok"
    /\ fends = 1
    /\ PathsOf(out) = <<A_TXT, B_MD>>

Whole == Inner(upstream.items)
AtsOf(q) == {q[i].at : i \in 1..Len(q)}
ValuesOf(q) == SelectSeq(q, LAMBDA it : it.tag # "Err")
Ascending(q) == \A i, j \in 1..Len(q) : i < j => q[i].at < q[j].at
Unwrap(q) == [i \in 1..Len(q) |-> [q[i] EXCEPT !.tag = "Val"]]
ErrValues(q) == [i \in 1..Len(ErrsOf(q)) |-> ErrsOf(q)[i].err]
Yielded(it) == \E i \in 1..Len(out) : out[i] = it

(* C21: for one upstream and one name, the successful items ComponentFilter
   yields with Include and those it yields with Exclude share no upstream
   position and together cover every successful upstream position, and the
   Err items of the two outputs are the same (those of the upstream). *)
Opposite(f) == [f EXCEPT !.operation = IF @ = "Include" THEN "Exclude" ELSE "Include"]

C21_IncludeExcludePartition ==
    filter.kind = "ComponentFilter" =>
       LET mine == Drain(filter, Whole)
           theirs == Drain(Opposite(filter), Whole)
       IN /\ fends > 0 => out = mine
          /\ AtsOf(ValuesOf(mine)) \cap AtsOf(ValuesOf(theirs)) = {}
          /\ AtsOf(ValuesOf(mine)) \cup AtsOf(ValuesOf(theirs)) = AtsOf(ValuesOf(upstream.items))
          /\ \A i \in 1..Len(mine) : mine[i] = upstream.items[mine[i].at]
          /\ \A i \in 1..Len(theirs) : theirs[i] = upstream.items[theirs[i].at]
          /\ ErrsOf(mine) = ErrsOf(theirs)
          /\ ErrsOf(mine) = ErrsOf(upstream.items)

C21_Witness ==
    /\ filter.kind = "ComponentFilter" /\ Fallible /\ fends = 1
    /\ ValuesOf(out) # <<>>
    /\ ErrsOf(out) # <<>>
    /\ Len(out) < Len(upstream.items)

(* C22: AllowExtensions and ExtensionFilter yield a successful upstream item
   exactly when the file name of its path has an extension and that extension
   is, letter for letter, a member of the allowed list; an item without an
   extension is dropped, and with an empty list no successful item is
   yielded. *)
HasExtension(path) ==
    /\ path # <<>>
    /\ Len(Last(path)) >= 2
    /\ ~(Len(Last(path)) = 2 /\ Last(path)[1] = "")
ExtensionStages == {"AllowExtensions", "ExtensionFilter"}
Allowed(it) ==
    /\ HasExtension(it.path)
    /\ \E i \in 1..Len(filter.extensions) : filter.extensions[i] = Last(Last(it.path))

C22_ExtensionTruthTable ==
    filter.kind \in ExtensionStages =>
       /\ \A k \in 1..upstream.pos :
             upstream.items[k].tag # "Err" => (Allowed(upstream.items[k]) <=> Yielded(upstream.items[k]))
       /\ \A i \in 1..Len(out) : out[i].tag # "Err" => HasExtension(out[i].path)
       /\ filter.extensions = <<>> => ValuesOf(out) = <<>>

C22_Witness ==
    /\ filter.kind = "ExtensionFilter" /\ fends = 1
    /\ filter.extensions = <<"txt", "md">>
    /\ PathsOf(upstream.items) = <<B_MD, UPPER_MD, DOT_MD>>
    /\ PathsOf(out) = <<B_MD>>

(* C23: the extension filters are idempotent: the filter applied to its own
   output, with the same allowed list, yields that output again. *)
C23_Idempotent ==
    filter.kind \in ExtensionStages =>
       LET once == Drain(filter, Whole)
       IN /\ fends > 0 => out = once
          /\ Drain(filter, Inner(once)) = once

C23_Witness ==
    /\ filter.kind = "AllowExtensions" /\ filter.shape = "DirEntry" /\ fends = 1
    /\ Len(out) = 2
    /\ Len(upstream.items) = 3
    /\ Drain(filter, Inner(out)) = out

(* C24: what ComponentFilter, AllowExtensions, ExtensionFilter, ResultFilter
   and ErrorCollector hand out is a subsequence of the upstream: every output
   is the upstream item at one consumed position (its value, for the two
   stages that unwrap), and the positions ascend, so nothing is duplicated,
   reordered or invented; allowing md on a.txt, b.md, sub/c.md gives b.md,
   sub/c.md. *)
SubsequenceStages == PredicateStages \cup {"ResultFilter", "ErrorCollector"}
SameItem(o, u) ==
    IF filter.kind \in PredicateStages THEN o = u
    ELSE u.tag = "Ok" /\ o = [u EXCEPT !.tag = "Val"]

C24_Subsequence ==
    filter.kind \in SubsequenceStages =>
       /\ \A i \in 1..Len(out) :
             /\ out[i].at \in 1..upstream.pos
             /\ SameItem(out[i], upstream.items[out[i].at])
       /\ Ascending(out)
       /\ (/\ filter.kind = "AllowExtensions" /\ filter.extensions = <<"md">>
           /\ PathsOf(upstream.items) = <<A_TXT, B_MD, SUB_C_MD>>
           /\ fends > 0)
          => PathsOf(out) = <<B_MD, SUB_C_MD>>

C24_Witness ==
    /\ filter.kind = "AllowExtensions" /\ filter.extensions = <<"md">>
    /\ filter.shape = "Result<DirEntry>"
    /\ PathsOf(upstream.items) = <<A_TXT, B_MD, SUB_C_MD>>
    /\ fends = 1
    /\ PathsOf(out) = <<B_MD, SUB_C_MD>>

(* C25: ResultFilter yields exactly the values of the Ok items consumed from
   the upstream, unwrapped and in upstream order, and nothing for an Err; at
   the end it has yielded as many items as the upstream has Ok items. *)
C25_ResultFilter ==
    filter.kind = "ResultFilter" =>
       /\ out = Unwrap(ValuesOf(Consumed))
       /\ \A i \in 1..Len(out) : out[i].tag = "Val" /\ out[i].err = NoErr
       /\ fends > 0 => Len(out) = Len(ValuesOf(upstream.items))

C25_Witness ==
    /\ filter.kind = "ResultFilter" /\ fends = 1
    /\ Len(out) = 2
    /\ upstream.items[1].tag = "Err"
    /\ Len(upstream.items) = 3

(* C26: after any number of pulls the vector attached to an ErrorCollector is
   what it held when the stage was built followed by the Err values consumed
   so far, in upstream order; a pull only appends to it; the values yielded
   are the Ok values consumed so far; once the end was returned the whole
   upstream has been consumed. *)
C26_State ==
    filter.kind = "ErrorCollector" =>
       /\ \E prior \in PriorErrors : filter.errors = prior \o ErrValues(Consumed)
       /\ out = Unwrap(ValuesOf(Consumed))
       /\ fends > 0 => upstream.pos = Len(upstream.items)

C26_Step ==
    filter.kind = "ErrorCollector" =>
       /\ Len(filter'.errors) >= Len(filter.errors)
       /\ SubSeq(filter'.errors, 1, Len(filter.errors)) = filter.errors

C26_ErrorsCollected == [](C26_State) /\ [][C26_Step]_vars

C26_Witness ==
    /\ filter.kind = "ErrorCollector" /\ fends = 1
    /\ filter.errors = <<"EIO", "ENOENT", "EACCES">>
    /\ Len(out) = 1

(* C27: EntryToPath consumes one upstream item per pull that yields; its i-th
   output is the path of the i-th upstream entry when that item is
   successful and the same Err when it is a failure; a pull returns the end
   exactly when the upstream has nothing left. *)
C27_State ==
    filter.kind = "EntryToPath" =>
       /\ Len(out) = upstream.pos
       /\ \A i \in 1..Len(out) :
             LET u == upstream.items[i]
             IN IF u.tag = "Err"
                  THEN out[i] = u
                  ELSE /\ out[i].ty = "PathBuf"
                       /\ out[i].path = u.path
                       /\ out[i].tag = u.tag
                       /\ out[i].at = i

C27_Step ==
    filter.kind = "EntryToPath" =>
       /\ fends' > fends <=> upstream.pos = Len(upstream.items)
       /\ fends' = fends => upstream'.pos = upstream.pos + 1

C27_PositionPreserving == [](C27_State) /\ [][C27_Step]_vars

C27_Witness ==
    /\ filter.kind = "EntryToPath" /\ filter.shape = "Result<DirEntry>" /\ fends = 1
    /\ Len(out) = 3
    /\ \E i \in 1..3 : out[i].tag = "Err"
    /\ \E i \in 1..3 : out[i].tag = "Ok" /\ Len(out[i].path) = 2

(* C28: a pull of any stage consumes upstream items one after the other and
   stops at the first it yields or at the upstream's end: the item it returns
   is the last one it consumed and the ones before it in that pull are
   dropped; it returns the end exactly when the upstream ran out during the
   pull; and with a finite upstream every pull returns, so the end is
   reached. *)
C28_Step ==
    /\ upstream'.items = upstream.items
    /\ upstream'.pos >= upstream.pos
    /\ fends' = fends =>
          /\ Len(out') = Len(out) + 1
          /\ SubSeq(out', 1, Len(out)) = out
          /\ upstream'.pos > upstream.pos
          /\ Last(out').at = upstream'.pos
    /\ fends' # fends =>
          /\ fends' = fends + 1
          /\ out' = out
          /\ upstream'.pos = Len(upstream.items)

C28_PullSemantics == [][C28_Step]_vars /\ <>(fends > 0)

C28_Witness ==
    /\ filter.kind = "ResultFilter" /\ fends = 1
    /\ Len(out) = 1
    /\ out[1].at = 2
    /\ upstream.pos = 2

-----------------------------------------------------------------------------
(* path_re_root *)

(* C29: when path_re_root(path, strip, replace) succeeds with r, then
   path_re_root(r, replace, strip) succeeds and returns a path equal to
   path. *)
C29_RoundTrip ==
    (reroot # <<>> /\ reroot.calls = 2) =>
       /\ reroot.back.ok
       /\ PathEq(reroot.back.val, reroot.path)

(* C30: path_re_root(path, prefix, replace) fails exactly when the
   components of path do not begin with those of prefix, and when it
   succeeds the result is replace followed by the components of path that
   come after prefix. *)
C30_FailsExactly ==
    (reroot # <<>> /\ reroot.calls >= 1) =>
       (reroot.there.ok <=> StartsWith(Components(reroot.path), Components(reroot.find)))

C30_ReRootResult ==
    (reroot # <<>> /\ reroot.calls >= 1) =>
       /\ C30_FailsExactly
       /\ reroot.there.ok =>
             LET after == SubSeq(Components(reroot.path), Len(Components(reroot.find)) + 1,
                                 Len(Components(reroot.path)))
             IN Components(reroot.there.val) = Components(reroot.replace_by \o after)

(* C31: PathReRoot yields one pair per upstream path, in upstream order; the
   first element of a pair is the upstream path unchanged and the second the
   result of re-rooting it; a pair that carries a failure is followed by the
   pairs of the later paths, which are what they would be without it; the
   end comes only when the upstream has ended. *)
BeginsWith(path, prefix) == StartsWith(Components(path), Components(prefix))

C31_State ==
    filter.kind = "PathReRoot" =>
       /\ Len(out) = upstream.pos
       /\ \A i \in 1..Len(out) :
             /\ out[i].original = upstream.items[i]
             /\ out[i].rooted = path_re_root(upstream.items[i], filter.strip_prefix, filter.replace_by)
             /\ out[i].rooted.ok <=> BeginsWith(upstream.items[i], filter.strip_prefix)
       /\ fends > 0 => upstream.pos = Len(upstream.items)

C31_Step ==
    filter.kind = "PathReRoot" =>
       /\ upstream.pos < Len(upstream.items) =>
             /\ upstream'.pos = upstream.pos + 1
             /\ Len(out') = Len(out) + 1
             /\ fends' = fends
       /\ SubSeq(out', 1, Len(out)) = out
       /\ upstream'.items = upstream.items
       /\ filter' = filter

C31_PairPerPath == [](C31_State) /\ [][C31_Step]_vars

C31_Witness ==
    /\ filter.kind = "PathReRoot"
    /\ Len(out) = 2
    /\ ~out[1].rooted.ok
    /\ out[2].rooted.ok
    /\ out[2].rooted.val # out[2].original
    /\ fends = 1

-----------------------------------------------------------------------------
(* The engines, once more *)

IndexOf(n) == CHOOSE j \in 1..Len(yielded) : yielded[j] = ItemOk(n)
RootFiles == {n \in Nodes : ~fs[n].is_dir /\ fs[n].parent = Root}
DeepFiles == {n \in Nodes : ~fs[n].is_dir /\ fs[n].parent # Root}

(* C32: on a root with files a.txt and b.md and a subdirectory sub holding
   c.md, nothing failing, a traversal pulled to its end has yielded exactly
   three Ok items, the three files, sub/c.md after both files of the root,
   and no Err item; the stats-tracking engine ends with
   total_files_consumed = 3, total_dirs_consumed = 1 and pending empty;
   whatever the order in which the root lists its entries. *)
C32_Scenario ==
    (ScenarioTree(fs) /\ ends > 0) =>
       /\ Len(yielded) = 3
       /\ ErrYielded = 0
       /\ \A n \in RootFiles \cup DeepFiles : YieldsOf(n) = 1
       /\ Cardinality(RootFiles) = 2 /\ Cardinality(DeepFiles) = 1
       /\ \A c \in DeepFiles : \A f \in RootFiles : IndexOf(f) < IndexOf(c)
       /\ IsLib =>
             /\ Self.stats.total_files_consumed = 3
             /\ Self.stats.total_dirs_consumed = 1
             /\ Self.pending_dirs = <<>>

C32_Witness ==
    /\ IsLib /\ ScenarioTree(fs) /\ ends = 1 /\ pc = "idle"
    /\ fs[1].is_dir
    /\ Len(yielded) = 3

(* C33: in the stats-tracking engine every pull, whatever it returns, adds
   exactly one to total_iterations, which is therefore the number of pulls
   made; iteration_started is unset before the first pull, is set by the
   first pull to the time of that pull, and no later pull changes it. *)
C33_State ==
    IsLib =>
       /\ Self.stats.total_iterations = pulls
       /\ (Self.stats.iteration_started = <<>>) <=> (pulls = 0)

C33_Step ==
    (IsLib /\ rdr' # <<>>) =>
       /\ rdr'[1].stats.total_iterations =
             Self.stats.total_iterations + (IF pulls' = pulls + 1 THEN 1 ELSE 0)
       /\ pulls' \in {pulls, pulls + 1}
       /\ (pulls = 0 /\ pulls' = 1) => rdr'[1].stats.iteration_started = <<now>>
       /\ Self.stats.iteration_started # <<>> =>
             rdr'[1].stats.iteration_started = Self.stats.iteration_started

C33_IterationsCountPulls == [](C33_State) /\ [][C33_Step]_vars

C33_Witness ==
    /\ IsLib /\ pc = "idle"
    /\ pulls = 3 /\ ends = 1
    /\ ErrYielded = 1 /\ OkYielded = 1
    /\ Self.stats.total_iterations = 3
    /\ Self.stats.iteration_started = <<1>>
    /\ now = 4

(* C34: the traversal is lazy.  Construction does nothing but open the root.
   An iteration of a pull reads at most one entry from the active handle; a
   directory is opened only when the active handle is exhausted, and it is
   the one on top of pending; a pull that yields an entry ends with the read
   and the metadata query of that entry, so the entries still in the active
   handle and everything beneath the pending directories are untouched. *)
Added == SubSeq(log', Len(log) + 1, Len(log'))
Untouched(n) == ~Touched(n)
HandleOf(self) == {self.read_dir[i] : i \in 1..Len(self.read_dir)}

C34_State ==
    /\ pc = "failed" => log = <<Ev("open", Missing, "err")>>
    /\ (pc = "idle" /\ pulls = 0) => log = <<Ev("open", Root, "ok")>>
    /\ Exists =>
          /\ \A n \in HandleOf(Self) : Untouched(n)
          /\ \A d \in PendingSet : OpensOf(d) = 0 /\ \A n \in Children(d) : Untouched(n)
          /\ (pc = "idle" /\ ret.tag = "Ok") =>
                /\ Len(log) >= 2
                /\ Last(log) = Ev("meta", ret.entry, "file")
                /\ log[Len(log) - 1] = Ev("read", ret.entry, "ok")

C34_Step ==
    Exists =>
       /\ Count(Added, LAMBDA e : e.op = "read") <= 1
       /\ Count(Added, LAMBDA e : e.op = "open") <= 1
       /\ \A j \in 1..Len(Added) :
             Added[j].op = "open" =>
                /\ Self.read_dir = <<>>
                /\ Pending # <<>>
                /\ Added[j].node = Last(Pending)
       /\ \A j \in 1..Len(Added) :
             Added[j].op = "read" =>
                /\ Self.read_dir # <<>>
                /\ Added[j].node = Head(Self.read_dir)
       /\ pc = "idle" => Added = <<>>

C34_Lazy == [](C34_State) /\ [][C34_Step]_vars

C34_Witness ==
    /\ Exists /\ variant = "rdr" /\ pc = "idle"
    /\ ret.tag = "Ok"
    /\ Self.read_dir # <<>>
    /\ Pending # <<>>

(* C35: the items that come from one directory's handle are yielded one
   after the other, with no item of another directory between them; and
   once a directory D has been popped, everything from D and from the
   directories found beneath D is yielded before any item of a directory
   that was in pending when D was popped. *)
DirOf(it) == fs[it.entry].parent
OpenIndex(d) == CHOOSE j \in 1..Len(log) : log[j] = Ev("open", d, "ok")
Opened(d) == Logged(Ev("open", d, "ok"))
PendingWhenPopped(d) ==
    {p \in Nodes \ {d} :
        /\ FoundDir(p)
        /\ PushIndex(p) < OpenIndex(d)
        /\ \A j \in 1..OpenIndex(d) : ~(log[j].op = "open" /\ log[j].node = p)}
FilesBeneath(d) == {n \in Nodes : ~fs[n].is_dir /\ Beneath(n, d)}

C35_DepthFirst ==
    (Exists /\ variant = "rdr" /\ \A n \in Nodes : fs[n].fail = "none") =>
       /\ \A i, j, k \in 1..Len(yielded) :
             (i < j /\ j < k /\ DirOf(yielded[i]) = DirOf(yielded[k])) =>
                DirOf(yielded[j]) = DirOf(yielded[i])
       /\ \A d \in Nodes : Opened(d) =>
             \A k \in 1..Len(yielded) :
                DirOf(yielded[k]) \in PendingWhenPopped(d) =>
                   \A n \in FilesBeneath(d) : YieldsOf(n) = 1 /\ IndexOf(n) < k

C35_Witness ==
    /\ Exists /\ variant = "rdr" /\ ends = 1
    /\ \E d \in Nodes : /\ Opened(d)
                        /\ \E k \in 1..Len(yielded) : DirOf(yielded[k]) \in PendingWhenPopped(d)
                        /\ \E n \in FilesBeneath(d) : fs[n].parent # d

(* C36: the stats-tracking engine and the plain engine, built on the same
   path of the same tree with the same listing order and the same failures,
   are built or fail together, return the same item on every pull (the same
   Ok entry, the same Err, or the end), hold equal pending stacks and active
   handles after every pull, and have asked the file system the same
   questions. *)
C36_SideBySide ==
    variant = "both" =>
       /\ pc # "start" => newRes[1] = newRes[2] /\ log[1] = log[2]
       /\ pc = "failed" => rdr = <<>>
       /\ pc = "idle" =>
             /\ rdr[1].pending_dirs = rdr[2].pending_dirs
             /\ rdr[1].read_dir = rdr[2].read_dir
       /\ \A k \in 1..Len(yielded) : yielded[k][1] = yielded[k][2]

C36_Witness ==
    /\ variant = "both" /\ pc = "idle"
    /\ Len(yielded) = 4
    /\ yielded[1][1].tag = "Err"
    /\ \E k \in 1..3 : yielded[k][1].tag = "Ok"
    /\ yielded[4][1].tag = "None"
    /\ rdr[1].stats.total_dirs_consumed >= 1
    /\ DOMAIN rdr[1].rd_errors \cup DOMAIN rdr[1].meta_errors # {}

-----------------------------------------------------------------------------
(* The filter stages, once more *)

Reversed(list) == [i \in 1..Len(list) |-> list[Len(list) + 1 - i]]
Twin(f, list) ==
    [f EXCEPT !.kind = IF @ = "ExtensionFilter" THEN "AllowExtensions" ELSE "ExtensionFilter",
              !.extensions = list]

(* C37: ExtensionFilter and AllowExtensions built over the same upstream with
   the same extensions, listed in the same or in another order, hand out the
   same sequence, and at every position of the upstream a pull of either
   returns the same item and consumes as much; in each of the three item
   shapes. *)
C37_SameAsTwin ==
    filter.kind \in ExtensionStages =>
       \A list \in {filter.extensions, Reversed(filter.extensions)} :
          /\ Drain(filter, Whole) = Drain(Twin(filter, list), Whole)
          /\ StageNext(filter, upstream).val = StageNext(Twin(filter, list), upstream).val
          /\ StageNext(filter, upstream).inner = StageNext(Twin(filter, list), upstream).inner
          /\ fends > 0 => out = Drain(Twin(filter, list), Whole)

C37_Witness ==
    /\ filter.kind = "ExtensionFilter"
    /\ filter.shape = "Result<DirEntry>"
    /\ Len(filter.extensions) = 2
    /\ fends = 1
    /\ \E i \in 1..Len(out) : out[i].tag = "Ok" /\ extension(out[i].path) = <<"txt">>
    /\ ValuesOf(out) # ValuesOf(upstream.items)

(* C38: ComponentFilter does the same in each item shape.  Over a fallible
   upstream, ResultFilter after the filter gives what the filter of the bare
   shape gives after ResultFilter; over entries, bare or fallible, EntryToPath
   after the filter gives what the filter of the path shape gives after
   EntryToPath; for every name and both policies. *)
Through(first, second) == Drain(second, Inner(Drain(first, Whole)))
ResultFilterOf(f) == [kind |-> "ResultFilter", shape |-> f.shape]
EntryToPathOf(f) == [kind |-> "EntryToPath", shape |-> f.shape]
Bare(f) == [f EXCEPT !.shape = PayloadOf(@)]
OnPaths(f) == [f EXCEPT !.shape = IF @ \in FallibleShapes THEN "Result<PathBuf>" ELSE "PathBuf"]
OverEntries == PayloadOf(filter.shape) = "DirEntry"

C38_ShapeIndependent ==
    filter.kind = "ComponentFilter" =>
       /\ Fallible =>
             /\ Through(filter, ResultFilterOf(filter)) = Through(ResultFilterOf(filter), Bare(filter))
             /\ fends > 0 =>
                   Drain(ResultFilterOf(filter), Inner(out)) = Through(ResultFilterOf(filter), Bare(filter))
       /\ OverEntries =>
             /\ Through(filter, EntryToPathOf(filter)) = Through(EntryToPathOf(filter), OnPaths(filter))
             /\ fends > 0 =>
                   Drain(EntryToPathOf(filter), Inner(out)) = Through(EntryToPathOf(filter), OnPaths(filter))

C38_Witness ==
    /\ filter.kind = "ComponentFilter" /\ filter.shape = "Result<DirEntry>"
    /\ filter.operation = "Exclude"
    /\ fends = 1
    /\ ErrsOf(out) # <<>>
    /\ ValuesOf(out) # <<>>
    /\ ValuesOf(out) # ValuesOf(upstream.items)
    /\ Through(filter, ResultFilterOf(filter)) # <<>>
    /\ \E i \in 1..Len(Through(filter, EntryToPathOf(filter))) :
          Through(filter, EntryToPathOf(filter))[i].ty = "PathBuf"

-----------------------------------------------------------------------------
(* The end of a traversal *)

(* C39: once a pull has returned the end, every later pull returns the end
   too, yields nothing and leaves pending, the active handle, current_path,
   total_files_consumed, total_dirs_consumed, max_stacked_dirs and both error
   logs as they are; only total_iterations goes on counting, so that it is
   the number of items yielded plus the number of pulls that returned the
   end. *)
C39_State ==
    (Exists /\ ends > 0) =>
       /\ pc = "idle" => ret.tag = "None" /\ pulls = Len(yielded) + ends
       /\ Self.pending_dirs = <<>>
       /\ Self.read_dir = <<>>
       /\ (IsLib /\ pc = "idle") => Self.stats.total_iterations = Len(yielded) + ends

C39_Step ==
    (Exists /\ ends > 0) =>
       /\ yielded' = yielded
       /\ log' = log
       /\ IF IsLib
            THEN rdr' = <<[Self EXCEPT !.stats.total_iterations = rdr'[1].stats.total_iterations]>>
            ELSE rdr' = rdr
       /\ IsLib => rdr'[1].stats.total_iterations \in
                      {Self.stats.total_iterations, Self.stats.total_iterations + 1}
       /\ (pc = "loop") => ends' = ends + 1

C39_EndIsFinal == [](C39_State) /\ [][C39_Step]_vars

C39_Witness ==
    /\ IsLib /\ pc = "idle" /\ ends = 2
    /\ OkYielded >= 1 /\ ErrYielded >= 1
    /\ Self.stats.total_dirs_consumed >= 1
    /\ Self.stats.total_iterations = Len(yielded) + 2

====
